---------------------------- MODULE Spec2Model ----------------------------
(***************************************************************************)
(* A model of platsch (src/libplatsch.c): the splash-screen engine that    *)
(* probes the DRM devices, prepares one output record (struct modeset_dev) *)
(* per usable connector and presents a frame on each.                      *)
(*                                                                         *)
(* The kernel is the environment: what open(), the DRM ioctls, getenv()    *)
(* and the libdrm getters return is chosen nondeterministically at the     *)
(* call.  Strings the code parses are sequences of one-character strings.  *)
(*                                                                         *)
(* Three specifications share the variables: Spec is one platsch_init_ctx  *)
(* batch on a fresh context, SpecDraw is platsch_draw called repeatedly on *)
(* a prepared context, SpecProbe is platsch_alloc_ctx.                     *)
(***************************************************************************)
EXTENDS Integers, Sequences, FiniteSets, TLC

VARIABLES
    pc,            \* where the engine is: the public call in progress and its position
    ndebug,        \* the build: TRUE when assert() is compiled out (-DNDEBUG)
    ctx_valid,     \* platsch_alloc_ctx returned a context (FALSE: NULL)
    drmfd,         \* ctx->drmfd
    modeset_list,  \* ctx->modeset_list, head first
    res,           \* drmprepare: the drmModeRes in use
    i,             \* drmprepare: the connector loop index
    root_node,     \* drmprepare: its local flag
    conn,          \* drmprepare: the connector fetched in this iteration, while read
    mode_env,      \* set_env_connector_mode: what the override lookup gives
    dev,           \* drmprepare: the record under construction
    enc_i,         \* drmprepare_crtc: the encoder loop index
    why,           \* ghost: why drmprepare_crtc went on to search, why the probe failed
    last,          \* ghost: how the last finished iteration of drmprepare ended
    iter,          \* platsch_draw: position of the list cursor (1 = head)
    drawn,         \* ghost: the presentation calls issued so far, pass by pass
    passes,        \* ghost: the number of platsch_draw calls so far
    probe_i,       \* platsch_alloc_ctx: the probe loop index
    devnodes,      \* the device nodes: what open() and GETRESOURCES give for each index
    open_fds,      \* the open descriptors of device nodes, each with its node (ghost)
    opened,        \* ghost: the device nodes open() has opened
    kernel,        \* the kernel's side: dumb buffers, framebuffers, mappings, DRM master
    ops,           \* ghost: the calls of the operation under way, in order
    custom_draw,   \* ctx->custom_draw_buffer_cb and ctx->custom_draw_priv
    loader_env,    \* what asprintf, open and read give platsch_draw_buffer
    proc,          \* platsch.c: pid1, and the child fork() made with its descriptors
    topology       \* the encoders of the device and the connectors' lists of them

vars == <<pc, ndebug, ctx_valid, drmfd, modeset_list, res, i, root_node, conn,
          mode_env, dev, enc_i, why, last, iter, drawn, passes, probe_i,
          devnodes, open_fds, opened, kernel, ops, custom_draw, loader_env,
          proc, topology>>

(***************************************************************************)
(* Bounds of the model.                                                    *)
(***************************************************************************)
NumConnectors == 2      \* connectors the controller reports, at most
NumCrtcs == 2           \* CRTCs the controller reports
MaxEncoders == 2        \* encoders one connector advertises, at most
MaxVaried == 2           \* device nodes 0..MaxVaried-1 (and the last one) vary
MaxPasses == 3          \* platsch_draw is called at most MaxPasses times

(***************************************************************************)
(* Program constants.                                                      *)
(***************************************************************************)
NumProbes == 64         \* for (i = 0; i < 64; i++)
FmtSpecSize == 32       \* char fmt_specifier[32]

RetOk == "0"
ENOENT == "-ENOENT"
EFAULT == "-EFAULT"
ENOMEM == "-ENOMEM"
ERRNO == "-errno"

(***************************************************************************)
(* Strings.                                                                *)
(***************************************************************************)
Digits == <<"0", "1", "2", "3", "4", "5", "6", "7", "8", "9">>

IsDigit(c) == \E d \in 1..10 : Digits[d] = c

DigitVal(c) == (CHOOSE d \in 1..10 : Digits[d] = c) - 1

IsSpace(c) == c \in {" ", "\t", "\n"}

NameRGB565 == <<"R", "G", "B", "5", "6", "5">>
NameXRGB8888 == <<"X", "R", "G", "B", "8", "8", "8", "8">>

(***************************************************************************)
(* platsch_formats[]; a format pointer is an index into it, 0 is NULL.     *)
(***************************************************************************)
platsch_formats ==
    << [format |-> "DRM_FORMAT_RGB565", bpp |-> 16, name |-> NameRGB565],
       [format |-> "DRM_FORMAT_XRGB8888", bpp |-> 32, name |-> NameXRGB8888] >>

RECURSIVE FormatFindFrom(_, _)
FormatFindFrom(name, k) ==
    IF k > Len(platsch_formats) THEN 0
    ELSE IF platsch_formats[k].name = name THEN k
    ELSE FormatFindFrom(name, k + 1)

platsch_format_find(name) == FormatFindFrom(name, 1)

(***************************************************************************)
(* sscanf(mode, "%ux%u@%s", &width, &height, fmt_specifier).               *)
(* %u skips white space and reads a run of digits; a literal must match    *)
(* the next character; %s skips white space and reads up to the next white *)
(* space.  ret counts the conversions stored.  %s has no field width, so a *)
(* word of FmtSpecSize characters or more is written past fmt_specifier.   *)
(* The numbers of the overrides drawn are far below UINT_MAX.              *)
(***************************************************************************)
RECURSIVE SkipSpace(_, _)
SkipSpace(s, p) ==
    IF p <= Len(s) /\ IsSpace(s[p]) THEN SkipSpace(s, p + 1) ELSE p

RECURSIVE DigitsEnd(_, _)
DigitsEnd(s, p) ==
    IF p <= Len(s) /\ IsDigit(s[p]) THEN DigitsEnd(s, p + 1) ELSE p

RECURSIVE WordEnd(_, _)
WordEnd(s, p) ==
    IF p <= Len(s) /\ ~IsSpace(s[p]) THEN WordEnd(s, p + 1) ELSE p

RECURSIVE UIntValue(_, _, _)
UIntValue(s, p, q) ==
    IF q <= p THEN 0
    ELSE UIntValue(s, p, q - 1) * 10 + DigitVal(s[q - 1])

ScanUInt(s, p) ==
    LET b == SkipSpace(s, p)
        e == DigitsEnd(s, b)
    IN  [ok |-> e > b, val |-> UIntValue(s, b, e), next |-> e]

sscanf_mode(s) ==
    LET none == [ret |-> 0, width |-> 0, height |-> 0, fmt_specifier |-> <<>>,
                 overflow |-> FALSE]
        w == ScanUInt(s, 1)
        h == ScanUInt(s, w.next + 1)
        b == SkipSpace(s, h.next + 1)
        e == WordEnd(s, b)
    IN  IF ~w.ok THEN none
        ELSE IF ~(w.next <= Len(s) /\ s[w.next] = "x") \/ ~h.ok
             THEN [none EXCEPT !.ret = 1, !.width = w.val]
        ELSE IF ~(h.next <= Len(s) /\ s[h.next] = "@") \/ e = b
             THEN [none EXCEPT !.ret = 2, !.width = w.val, !.height = h.val]
        ELSE [ret |-> 3, width |-> w.val, height |-> h.val,
              fmt_specifier |-> SubSeq(s, b, e - 1),
              overflow |-> (e - b) + 1 > FmtSpecSize]

(***************************************************************************)
(* Kernel objects.  Object ids are the kernel's; the model numbers them.   *)
(***************************************************************************)
ConnId(k) == 20 + k
EncId(k) == 30 + k
CrtcId(j) == 40 + j

DRM_MODE_CONNECTED == "connected"
DRM_MODE_DISCONNECTED == "disconnected"

NoMode == [hdisplay |-> 0, vdisplay |-> 0, vrefresh |-> 0]
Mode1080 == [hdisplay |-> 1920, vdisplay |-> 1080, vrefresh |-> 60]
Mode720 == [hdisplay |-> 1280, vdisplay |-> 720, vrefresh |-> 60]
Mode720b == [hdisplay |-> 1280, vdisplay |-> 720, vrefresh |-> 50]

\* calloc(1, sizeof(*dev)); path is a ghost: the branch of drmprepare_crtc that
\* chose the CRTC ("reuse": the active encoder's, "search": the loops')
NewDev ==
    [conn_id |-> 0, width |-> 0, height |-> 0, stride |-> 0, size |-> 0,
     format |-> 0, handle |-> 0, map |-> 0, setmode |-> FALSE, mode |-> NoMode,
     fb_id |-> 0, crtc_id |-> 0, path |-> "none"]

NoEncoder == [ok |-> FALSE, crtc_id |-> 0, possible_crtcs |-> 0]

NoConn ==
    [ok |-> FALSE, connector_id |-> 0, connection |-> DRM_MODE_DISCONNECTED,
     modes |-> <<>>, encoder_id |-> 0, encoders |-> <<>>]

NoLookup == [kind |-> "unset", value |-> <<>>]

(***************************************************************************)
(* set_env_connector_mode.  lookup is what the name lookup and getenv()    *)
(* give; ub is what the build does when sscanf overruns fmt_specifier.     *)
(***************************************************************************)
\* the match loop without its break: the last match wins
LastMatchingMode(modes, width, height, k) ==
    LET found == { j \in k..Len(modes) : modes[j].hdisplay = width
                                          /\ modes[j].vdisplay = height }
    IN  IF found = {} THEN Len(modes) + 1
        ELSE CHOOSE j \in found : \A m \in found : m <= j

RECURSIVE FirstMatchingMode(_, _, _, _)
FirstMatchingMode(modes, width, height, k) ==
    IF k > Len(modes) THEN k
    ELSE IF modes[k].hdisplay = width /\ modes[k].vdisplay = height THEN k
    ELSE FirstMatchingMode(modes, width, height, k + 1)

\* the default taken from the wrong end of conn->modes
FallbackModeLast(c, d) ==
    [d EXCEPT !.mode = c.modes[Len(c.modes)],
              !.width = c.modes[Len(c.modes)].hdisplay,
              !.height = c.modes[Len(c.modes)].vdisplay, !.format = 1]

FallbackMode(c, d) ==
    [d EXCEPT !.mode = c.modes[1], !.width = c.modes[1].hdisplay,
                !.height = c.modes[1].vdisplay, !.format = 1]

set_env_connector_mode(c, d, lookup, ub) ==
    LET scan == sscanf_mode(lookup.value)
        k == FirstMatchingMode(c.modes, scan.width, scan.height, 1)
        matched == [d EXCEPT !.mode = c.modes[k], !.width = scan.width,
                               !.height = scan.height]
        format == platsch_format_find(scan.fmt_specifier)
    IN  IF lookup.kind = "enomem"
        THEN [ret |-> ENOMEM, dev |-> d, aborted |-> FALSE]
        ELSE IF lookup.kind \in {"no_type_name", "unset"}
        THEN [ret |-> RetOk, dev |-> FallbackMode(c, d), aborted |-> FALSE]
        ELSE IF scan.overflow /\ ub = "abort"
        THEN [ret |-> RetOk, dev |-> d, aborted |-> TRUE]
        ELSE IF scan.ret < 2
        THEN [ret |-> EFAULT, dev |-> d, aborted |-> FALSE]
        ELSE IF k > Len(c.modes)
        THEN [ret |-> ENOENT, dev |-> d, aborted |-> FALSE]
        ELSE IF format = 0
        THEN [ret |-> RetOk, dev |-> [matched EXCEPT !.format = 1],
              aborted |-> FALSE]
        ELSE [ret |-> RetOk, dev |-> [matched EXCEPT !.format = format],
              aborted |-> FALSE]

(***************************************************************************)
(* drmprepare_crtc, in two parts: the try of the connector's active        *)
(* encoder, and one iteration of the loop over conn->encoders.  enc is     *)
(* what drmModeGetEncoder gives; nd is NDEBUG.                             *)
(***************************************************************************)
\* the comparison made with the wrong field of the record
InUseConnId(list, crtc_id) == \E k \in 1..Len(list) : list[k].conn_id = crtc_id

InUse(list, crtc_id) == \E k \in 1..Len(list) : list[k].crtc_id = crtc_id

HasBit(mask, j) == (mask \div (2 ^ j)) % 2 = 1

\* the CRTCs of one encoder taken from the far end of res->crtcs
ScanCrtcsFromEnd(list, r, enc, j) ==
    LET ok == { n \in j..(r.count_crtcs - 1) :
                  HasBit(enc.possible_crtcs, n) /\ ~InUse(list, r.crtcs[n + 1]) }
    IN  IF ok = {} THEN 0
        ELSE r.crtcs[(CHOOSE n \in ok : \A m \in ok : m <= n) + 1]

\* the loop over res->crtcs for one encoder: the CRTC found, or 0
RECURSIVE ScanCrtcs(_, _, _, _)
ScanCrtcs(list, r, enc, j) ==
    IF j >= r.count_crtcs THEN 0
    ELSE IF HasBit(enc.possible_crtcs, j) /\ ~InUse(list, r.crtcs[j + 1])
    THEN r.crtcs[j + 1]
    ELSE ScanCrtcs(list, r, enc, j + 1)

\* a mode-set forced whenever the timing selected is not the connector's first
drmprepare_crtc_active_forced(list, c, d, enc, nd) ==
    LET d1 == IF c.encoder_id # 0 /\ d.mode = c.modes[1] THEN d
              ELSE [d EXCEPT !.setmode = TRUE]
    IN  IF c.encoder_id # 0 /\ ~enc.ok /\ ~nd
        THEN [done |-> FALSE, aborted |-> TRUE, dev |-> d, why |-> "encoder_null"]
        ELSE IF c.encoder_id # 0 /\ enc.ok /\ enc.crtc_id # 0
                /\ ~(\E k \in 1..Len(list) : list[k].crtc_id = enc.crtc_id)
        THEN [done |-> TRUE, aborted |-> FALSE, why |-> "reuse",
              dev |-> [d1 EXCEPT !.crtc_id = enc.crtc_id, !.path = "reuse"]]
        ELSE [done |-> FALSE, aborted |-> FALSE, dev |-> d1, why |-> "search"]

\* the active CRTC never taken over: always on to the search
drmprepare_crtc_active_never(list, c, d, enc, nd) ==
    IF c.encoder_id # 0 /\ ~enc.ok /\ ~nd
    THEN [done |-> FALSE, aborted |-> TRUE, dev |-> d, why |-> "encoder_null"]
    ELSE [done |-> FALSE, aborted |-> FALSE, why |-> "search",
          dev |-> IF c.encoder_id # 0 THEN d ELSE [d EXCEPT !.setmode = TRUE]]

\* "first try the currently connected encoder+crtc"
drmprepare_crtc_active(list, c, d, enc, nd) ==
    LET \* dev->setmode = 1 is in the branch without an active encoder only
        d1 == IF c.encoder_id # 0 THEN d ELSE [d EXCEPT !.setmode = TRUE]
        reason == IF c.encoder_id = 0 THEN "no_encoder"
                  ELSE IF ~enc.ok THEN "encoder_null"
                  ELSE IF enc.crtc_id = 0 THEN "no_crtc"
                  ELSE "crtc_claimed"
    IN  IF c.encoder_id # 0 /\ ~enc.ok /\ ~nd                  \* assert(enc)
        THEN [done |-> FALSE, aborted |-> TRUE, dev |-> d, why |-> reason]
        ELSE IF c.encoder_id # 0 /\ enc.ok /\ enc.crtc_id # 0
                /\ ~InUse(list, enc.crtc_id)
        THEN [done |-> TRUE, aborted |-> FALSE, why |-> "reuse",
              dev |-> [d1 EXCEPT !.crtc_id = enc.crtc_id, !.path = "reuse"]]
        ELSE [done |-> FALSE, aborted |-> FALSE, dev |-> d1, why |-> reason]

\* one iteration of "iterate all other available encoders"
drmprepare_crtc_encoder(list, r, d, enc) ==
    LET crtc_id == IF enc.ok THEN ScanCrtcs(list, r, enc, 0) ELSE 0
    IN  IF crtc_id # 0
        THEN [done |-> TRUE, dev |-> [d EXCEPT !.crtc_id = crtc_id, !.path = "search"]]
        ELSE [done |-> FALSE, dev |-> d]

(***************************************************************************)
(* modeset_create_fb.  k is what the kernel gives: k.fail names the call   *)
(* that fails ("none": all succeed), k.handle, k.fb_id and k.map are the   *)
(* ids and the address it hands out; pitch and size follow from the        *)
(* request (no alignment padding).                                         *)
(***************************************************************************)
DumbPitch(d) == (d.width * platsch_formats[d.format].bpp) \div 8

Min(a, b) == IF a < b THEN a ELSE b

\* The bytes of a mapping, run-length encoded: "junk" is what a fresh mapping
\* holds, "zero" a zero byte, "file" the byte of the image file at the same
\* offset, "custom" a byte the custom callback wrote.
MemFill(n, v) == IF n = 0 THEN <<>> ELSE <<[len |-> n, val |-> v]>>

RECURSIVE MemSize(_)
MemSize(mem) == IF mem = <<>> THEN 0 ELSE mem[1].len + MemSize(Tail(mem))

RECURSIVE MemTake(_, _)
MemTake(mem, n) ==
    IF n = 0 \/ mem = <<>> THEN <<>>
    ELSE IF mem[1].len <= n THEN <<mem[1]>> \o MemTake(Tail(mem), n - mem[1].len)
    ELSE <<[mem[1] EXCEPT !.len = n]>>

RECURSIVE MemDrop(_, _)
MemDrop(mem, n) ==
    IF n = 0 \/ mem = <<>> THEN mem
    ELSE IF mem[1].len <= n THEN MemDrop(Tail(mem), n - mem[1].len)
    ELSE <<[mem[1] EXCEPT !.len = @ - n]>> \o Tail(mem)

RECURSIVE MemNorm(_)
MemNorm(mem) ==
    IF Len(mem) < 2 THEN mem
    ELSE IF mem[1].val = mem[2].val
    THEN MemNorm(<<[mem[1] EXCEPT !.len = @ + mem[2].len]>> \o Tail(Tail(mem)))
    ELSE <<mem[1]>> \o MemNorm(Tail(mem))

\* n bytes of value v stored at offset at of the mapping
MemWrite(mem, at, n, v) ==
    MemNorm(MemTake(mem, at) \o MemFill(n, v) \o MemDrop(mem, at + n))

\* the objects the device holds for the process, whether the process is DRM
\* master, and what drmModeSetCrtc and drmModePageFlip can return
NoKernel == [dumbs |-> {}, fbs |-> {}, maps |-> {}, master |-> FALSE,
             present |-> BOOLEAN]

\* no callback registered, and the callbacks and priv pointers of the model
NoCb == [cb |-> 0, priv |-> 0]

Callbacks == {0, 1}

Privs == {0, 7}

\* the image file is there and as long as the mapping, read in one go
FullFile == [asprintf_ok |-> TRUE, open_ok |-> TRUE, len |-> 3840 * 1080,
             chunk |-> 3840 * 1080, err_at |-> -1]

\* the library runs in a process of its caller: no child of its own
NoProc == [pid1 |-> FALSE, child |-> "none", child_fds |-> {}]

\* the encoders and connectors are asked for call by call
NoTopology == [first |-> 0, encs |-> <<>>, conns |-> <<>>]

\* one call into the kernel or libc, as the log keeps it
Op(op, id, size, ok) == [op |-> op, id |-> id, size |-> size, ok |-> ok]

\* what a call does to the kernel's objects and to the mappings
ApplyOp(kern, o) ==
    IF ~o.ok THEN kern
    ELSE CASE o.op = "DRM_IOCTL_MODE_CREATE_DUMB" ->
                [kern EXCEPT !.dumbs = @ \cup {o.id}]
           [] o.op = "DRM_IOCTL_MODE_DESTROY_DUMB" ->
                [kern EXCEPT !.dumbs = @ \ {o.id}]
           [] o.op = "drmModeAddFB2" -> [kern EXCEPT !.fbs = @ \cup {o.id}]
           [] o.op = "drmModeRmFB" -> [kern EXCEPT !.fbs = @ \ {o.id}]
           [] o.op = "mmap" ->
                [kern EXCEPT !.maps = @ \cup {[addr |-> o.id, size |-> o.size,
                                               mem |-> MemFill(o.size, "junk")]}]
           [] o.op = "munmap" ->
                [kern EXCEPT !.maps = { m \in @ : m.addr # o.id }]
           [] o.op = "memset" ->
                [kern EXCEPT !.maps =
                    { IF m.addr = o.id
                      THEN [m EXCEPT !.mem = MemWrite(m.mem, 0, o.size, "zero")]
                      ELSE m : m \in @ }]
           [] o.op = "read" ->
                [kern EXCEPT !.maps =
                    { IF m.addr = o.id
                      THEN [m EXCEPT !.mem = MemWrite(m.mem, o.at, o.size, "file")]
                      ELSE m : m \in @ }]
           [] o.op = "custom_draw_buffer_cb" ->
                [kern EXCEPT !.maps =
                    { IF m.addr = o.id
                      THEN [m EXCEPT !.mem = MemWrite(m.mem, 0, o.size, "custom")]
                      ELSE m : m \in @ }]
           [] o.op = "drmDropMaster" -> [kern EXCEPT !.master = FALSE]
           [] OTHER -> kern

RECURSIVE ApplyOps(_, _)
ApplyOps(kern, os) ==
    IF os = <<>> THEN kern ELSE ApplyOps(ApplyOp(kern, os[1]), Tail(os))

\* err_fb without the drmModeRmFB
modeset_create_fb_unwind_leak(label, d) ==
    <<Op("DRM_IOCTL_MODE_DESTROY_DUMB", d.handle, 0, TRUE)>>

\* the error path from the label jumped to: err_fb falls into err_destroy
modeset_create_fb_unwind(label, d) ==
    (IF label = "err_fb" THEN <<Op("drmModeRmFB", d.fb_id, 0, TRUE)>> ELSE <<>>)
    \o <<Op("DRM_IOCTL_MODE_DESTROY_DUMB", d.handle, 0, TRUE)>>

\* the memset left out
modeset_create_fb_clear_none(d) == <<>>

\* "Clear the framebuffer"
modeset_create_fb_clear(d) == <<Op("memset", d.map, d.size, TRUE)>>

modeset_create_fb(kern, d, k) ==
    LET dumb == [d EXCEPT !.stride = DumbPitch(d),
                          !.size = DumbPitch(d) * d.height,
                          !.handle = k.handle]
        fb == [dumb EXCEPT !.fb_id = k.fb_id]
        mapped == [fb EXCEPT !.map = k.map]
        create == Op("DRM_IOCTL_MODE_CREATE_DUMB", k.handle, dumb.size,
                     k.fail # "create_dumb")
        addfb == Op("drmModeAddFB2", k.fb_id, 0, k.fail # "addfb")
        mapdumb == Op("DRM_IOCTL_MODE_MAP_DUMB", k.handle, 0, k.fail # "map_dumb")
        mmap == Op("mmap", k.map, dumb.size, k.fail # "mmap")
        r == IF k.fail = "create_dumb"
             THEN [ret |-> ERRNO, dev |-> d, ops |-> <<create>>]
             ELSE IF k.fail = "addfb"
             THEN [ret |-> ERRNO, dev |-> dumb,
                   ops |-> <<create, addfb>>
                           \o modeset_create_fb_unwind("err_destroy", dumb)]
             ELSE IF k.fail = "map_dumb"
             THEN [ret |-> ERRNO, dev |-> fb,
                   ops |-> <<create, addfb, mapdumb>>
                           \o modeset_create_fb_unwind("err_fb", fb)]
             ELSE IF k.fail = "mmap"
             THEN [ret |-> ERRNO, dev |-> fb,
                   ops |-> <<create, addfb, mapdumb, mmap>>
                           \o modeset_create_fb_unwind("err_fb", fb)]
             ELSE [ret |-> RetOk, dev |-> mapped,
                   ops |-> <<create, addfb, mapdumb, mmap>>
                           \o modeset_create_fb_clear(mapped)]
    IN  [ret |-> r.ret, dev |-> r.dev, ops |-> r.ops,
         kernel |-> ApplyOps(kern, r.ops)]

(***************************************************************************)
(* What the environment can answer.                                        *)
(***************************************************************************)
Ov720 == <<"1", "2", "8", "0", "x", "7", "2", "0">>
Ov1080 == <<"1", "9", "2", "0", "x", "1", "0", "8", "0">>
Ov9999 == <<"9", "9", "9", "9", "x", "9", "9", "9", "9">>
OvAuto == <<"a", "u", "t", "o">>
NameBogus == <<"B", "O", "G", "U", "S">>
LongName(n) == [k \in 1..n |-> "A"]

\* values of platsch_<connector>_mode
Overrides ==
    { Ov720,                                      \* 1280x720
      Ov720 \o <<"@">> \o NameXRGB8888,            \* 1280x720@XRGB8888
      Ov1080 \o <<"@">> \o NameRGB565,             \* 1920x1080@RGB565
      Ov720 \o <<"@">> \o NameBogus,               \* 1280x720@BOGUS
      Ov720 \o <<"@">> \o LongName(FmtSpecSize - 1),  \* the longest name that fits
      Ov720 \o <<"@">> \o LongName(FmtSpecSize),   \* one character more
      Ov9999,                                     \* 9999x9999
      OvAuto }                                    \* auto

Lookups ==
    { [kind |-> "unset", value |-> <<>>],
      [kind |-> "no_type_name", value |-> <<>>],
      [kind |-> "enomem", value |-> <<>>] }
    \cup { [kind |-> "value", value |-> v] : v \in Overrides }

\* the lookup is made for a connector that passes the two checks before it
LookupsFor(c) ==
    IF c.connection = DRM_MODE_CONNECTED /\ Len(c.modes) > 0
    THEN Lookups ELSE {NoLookup}

\* what the build can do once sscanf has written past fmt_specifier
UbOutcomes(lookup) ==
    IF lookup.kind = "value" /\ sscanf_mode(lookup.value).overflow
    THEN {"abort", "benign"} ELSE {"benign"}

ModeLists == { <<>>, <<Mode1080, Mode720, Mode720b>> }

EncoderLists == { [k \in 1..n |-> EncId(k)] : n \in 0..MaxEncoders }

\* drmModeGetConnector(fd, id): NULL or a connector
ConnectorAnswers(id) ==
    { NoConn }
    \cup { [ok |-> TRUE, connector_id |-> id, connection |-> cn, modes |-> ms,
            encoder_id |-> en, encoders |-> es] :
            cn \in {DRM_MODE_CONNECTED, DRM_MODE_DISCONNECTED},
            ms \in ModeLists, en \in {0, EncId(1)}, es \in EncoderLists }

Masks == 0..(2 ^ NumCrtcs - 1)

\* drmModeGetEncoder(fd, conn->encoder_id): its crtc_id is what the code reads
ActiveAnswers ==
    { NoEncoder }
    \cup { [ok |-> TRUE, crtc_id |-> c, possible_crtcs |-> 2 ^ NumCrtcs - 1] :
            c \in {0} \cup { CrtcId(j) : j \in 1..NumCrtcs } }

\* drmModeGetEncoder(fd, conn->encoders[i]): its possible_crtcs is what the code reads
SearchAnswers ==
    { NoEncoder }
    \cup { [ok |-> TRUE, crtc_id |-> 0, possible_crtcs |-> m] : m \in Masks }

\* the ioctls of modeset_create_fb; n numbers the objects handed out
KernelFb(n) ==
    { [fail |-> f, handle |-> 1 + n, fb_id |-> 61 + n, map |-> 4096 * (1 + n)] :
        f \in {"none", "create_dumb", "addfb", "map_dumb", "mmap"} }

NoRes == [ok |-> FALSE, count_connectors |-> 0, connectors |-> <<>>,
          count_crtcs |-> 0, crtcs |-> <<>>]

\* drmModeGetResources(fd): NULL or the connectors and CRTCs
Resources ==
    { NoRes }
    \cup { [ok |-> TRUE, count_connectors |-> n,
            connectors |-> [k \in 1..n |-> ConnId(k)],
            count_crtcs |-> NumCrtcs, crtcs |-> [j \in 1..NumCrtcs |-> CrtcId(j)]] :
            n \in 0..NumConnectors }

NoLast == [conn_id |-> 0, stage |-> "none", ret |-> RetOk, why |-> "none"]

(***************************************************************************)
(* platsch_init_ctx: drmprepare, a step per call into the kernel.          *)
(***************************************************************************)
drawVars == <<iter, drawn, passes>>
kernelVars == <<kernel, ops>>
envVars == <<custom_draw, loader_env, proc, topology>>
probeVars == <<probe_i, devnodes, open_fds, opened, ctx_valid, drmfd>>

\* platsch_init_ctx is called: drmModeGetResources
InitCtx ==
    /\ pc = "idle"
    /\ \E r \in Resources :
          /\ r.ok => \E f \in open_fds : f.fd = drmfd
          /\ res' = r
          /\ IF r.ok
             THEN pc' = "loop" /\ last' = NoLast
             ELSE pc' = "returned"
                  /\ last' = [NoLast EXCEPT !.stage = "resources", !.ret = ERRNO]
    /\ i' = 0
    /\ root_node' = TRUE
    /\ UNCHANGED <<ndebug, envVars, kernelVars, modeset_list, conn, mode_env, dev, enc_i, why,
                   drawVars, probeVars>>

\* the iteration ends without a record: free(dev), continue
Continue(stage, ret) ==
    /\ last' = [conn_id |-> res.connectors[i + 1], stage |-> stage, ret |-> ret,
                why |-> why']
    /\ i' = i + 1
    /\ pc' = "loop"
    /\ conn' = NoConn
    /\ mode_env' = NoLookup
    /\ dev' = NewDev
    /\ enc_i' = 0
    /\ UNCHANGED <<modeset_list, root_node>>

\* assert() fails, or the overrun of fmt_specifier ends the process
Abort(stage) ==
    /\ last' = [conn_id |-> res.connectors[i + 1], stage |-> stage, ret |-> RetOk,
                why |-> why']
    /\ pc' = "aborted"
    /\ UNCHANGED <<modeset_list, root_node, i, conn, mode_env, dev, enc_i>>

\* the head of one loop iteration: drmModeGetConnector and calloc
GetConnector ==
    /\ pc = "loop"
    /\ i < res.count_connectors
    /\ why' = "none"
    /\ \E c \in ConnectorAnswers(res.connectors[i + 1]), calloc_ok \in BOOLEAN :
          IF c.ok /\ calloc_ok
          THEN /\ conn' = c
               /\ mode_env' \in LookupsFor(c)
               /\ dev' = [NewDev EXCEPT !.conn_id = c.connector_id]
               /\ pc' = "have_conn"
               /\ last' = NoLast
               /\ UNCHANGED <<i, enc_i, modeset_list, root_node>>
          ELSE Continue(IF c.ok THEN "calloc" ELSE "get_connector", ENOMEM)
    /\ ops' = <<>>
    /\ UNCHANGED <<ndebug, envVars, kernel, res, drawVars, probeVars>>

\* drmprepare_connector up to the mode: the two checks and set_env_connector_mode
SelectMode ==
    /\ pc = "have_conn"
    /\ why' = "none"
    /\ IF conn.connection # DRM_MODE_CONNECTED THEN Continue("connection", ENOENT)
       ELSE IF Len(conn.modes) = 0 THEN Continue("modes", EFAULT)
       ELSE \E ub \in UbOutcomes(mode_env) :
              LET m == set_env_connector_mode(conn, dev, mode_env, ub)
              IN  IF m.aborted THEN Abort("mode")
                  ELSE IF m.ret # RetOk THEN Continue("mode", m.ret)
                  ELSE /\ dev' = m.dev
                       /\ pc' = "crtc"
                       /\ mode_env' = NoLookup
                       /\ UNCHANGED <<i, last, conn, enc_i, modeset_list,
                                      root_node>>
    /\ UNCHANGED <<ndebug, envVars, kernelVars, res, drawVars, probeVars>>

\* drmprepare_crtc: the active encoder
PrepareCrtcActive ==
    /\ pc = "crtc"
    /\ \E enc \in (IF conn.encoder_id # 0 THEN ActiveAnswers ELSE {NoEncoder}) :
          LET r == drmprepare_crtc_active(modeset_list, conn, dev, enc, ndebug)
          IN  /\ why' = r.why
              /\ IF r.aborted THEN Abort("crtc")
                 ELSE /\ dev' = r.dev
                      /\ pc' = IF r.done THEN "fb" ELSE "search"
                      /\ conn' = IF r.done THEN NoConn ELSE conn
                      /\ enc_i' = 0
                      /\ UNCHANGED <<i, last, mode_env, modeset_list, root_node>>
    /\ UNCHANGED <<ndebug, envVars, kernelVars, res, drawVars, probeVars>>

\* drmprepare_crtc: one encoder of conn->encoders
PrepareCrtcSearch ==
    /\ pc = "search"
    /\ enc_i < Len(conn.encoders)
    /\ \E enc \in SearchAnswers :
          LET r == drmprepare_crtc_encoder(modeset_list, res, dev, enc)
          IN  /\ dev' = r.dev
              /\ IF r.done THEN pc' = "fb" /\ enc_i' = 0 /\ conn' = NoConn
                 ELSE pc' = "search" /\ enc_i' = enc_i + 1 /\ conn' = conn
    /\ UNCHANGED <<ndebug, envVars, kernelVars, res, i, last, mode_env, why, modeset_list,
                   root_node, drawVars, probeVars>>

\* drmprepare_crtc: no encoder is left, return -ENOENT
PrepareCrtcFail ==
    /\ pc = "search"
    /\ enc_i = Len(conn.encoders)
    /\ why' = why
    /\ Continue("crtc", ENOENT)
    /\ UNCHANGED <<ndebug, envVars, kernelVars, res, drawVars, probeVars>>

\* dev->next = NULL at every link: the records before are lost
LinkDevAlone(list, root, d) == <<d>>

\* a record of the list gives up its CRTC to the new one
LinkDevTakeOver(list, root, d) ==
    <<d>> \o (IF root THEN <<>>
              ELSE [k \in 1..Len(list) |->
                      IF list[k].crtc_id = d.crtc_id + 1
                      THEN [list[k] EXCEPT !.crtc_id = 0] ELSE list[k]])

\* "link device into global list": the list with d as its head
LinkDev(list, root, d) == <<d>> \o (IF root THEN <<>> ELSE list)

\* modeset_create_fb, then the end of the iteration: free or link
CreateFb ==
    /\ pc = "fb"
    /\ why' = why
    /\ \E k \in KernelFb(Cardinality(kernel.dumbs)) :
          LET f == modeset_create_fb(kernel, dev, k)
          IN  /\ kernel' = f.kernel
              /\ ops' = f.ops
              /\ IF f.ret # RetOk THEN Continue("fb", f.ret)
                 ELSE /\ modeset_list' = LinkDev(modeset_list, root_node, f.dev)
                      /\ root_node' = FALSE
                      /\ last' = [conn_id |-> dev.conn_id, stage |-> "done",
                                  ret |-> RetOk, why |-> why]
                      /\ i' = i + 1
                      /\ pc' = "loop"
                      /\ conn' = NoConn
                      /\ mode_env' = NoLookup
                      /\ dev' = NewDev
                      /\ enc_i' = 0
    /\ UNCHANGED <<ndebug, envVars, res, drawVars, probeVars>>

\* the loop is over: drmModeFreeResources, return 0
InitCtxReturn ==
    /\ pc = "loop"
    /\ i = res.count_connectors
    /\ pc' = "done"
    /\ UNCHANGED <<ndebug, envVars, kernelVars, modeset_list, res, i, root_node, conn, mode_env, dev,
                   enc_i, why, last, drawVars, probeVars>>

\* a context fresh from platsch_alloc_ctx
Init ==
    /\ pc = "idle"
    /\ ndebug \in BOOLEAN
    /\ ctx_valid = TRUE
    /\ drmfd = 3
    /\ modeset_list = <<>>
    /\ res = NoRes
    /\ i = 0
    /\ root_node = TRUE
    /\ conn = NoConn
    /\ mode_env = NoLookup
    /\ dev = NewDev
    /\ enc_i = 0
    /\ why = "none"
    /\ last = NoLast
    /\ iter = 0
    /\ drawn = <<>>
    /\ passes = 0
    /\ probe_i = 0
    /\ devnodes = <<>>
    /\ open_fds = {[fd |-> 3, node |-> 0]}
    /\ opened = {0}
    /\ kernel = [NoKernel EXCEPT !.master = TRUE]
    /\ ops = <<>>
    /\ custom_draw = NoCb
    /\ loader_env = FullFile
    /\ proc = NoProc
    /\ topology = NoTopology

Next ==
    \/ InitCtx
    \/ GetConnector
    \/ SelectMode
    \/ PrepareCrtcActive
    \/ PrepareCrtcSearch
    \/ PrepareCrtcFail
    \/ CreateFb
    \/ InitCtxReturn

Spec == Init /\ [][Next]_vars

(***************************************************************************)
(* Properties of platsch_init_ctx, checked under Spec.                     *)
(***************************************************************************)
CrtcIdsDistinct(list) ==
    \A a, b \in 1..Len(list) : a # b => list[a].crtc_id # list[b].crtc_id

\* C1: at every point during and after one platsch_init_ctx batch no two
\* records of the list have the same crtc_id, and the record that is about to
\* be linked has a crtc_id that no record of the list has, whichever of the
\* reuse path and the search gave the CRTCs.
C1_DistinctCrtcIds ==
    /\ CrtcIdsDistinct(modeset_list)
    /\ pc = "fb" =>
          \A a \in 1..Len(modeset_list) : modeset_list[a].crtc_id # dev.crtc_id

\* two records, the older on its active CRTC, the newer sent to the search
\* because the CRTC of its active encoder was claimed already
C1_ReuseThenSearch ==
    /\ pc = "done"
    /\ Len(modeset_list) = 2
    /\ modeset_list[2].path = "reuse"
    /\ modeset_list[1].path = "search"
    /\ last.why = "crtc_claimed"

\* C2: a record has setmode false only if its CRTC is the one its active
\* encoder drives (the reuse path); every record whose CRTC comes out of the
\* search has setmode true.
C2_SearchSetsModeset ==
    /\ \A k \in 1..Len(modeset_list) :
          modeset_list[k].path = "search" => modeset_list[k].setmode
    /\ pc = "fb" /\ dev.path = "search" => dev.setmode

\* a record linked with a CRTC from the search and setmode false: its
\* connector had an active encoder that drives no CRTC
C2_SearchWithoutModeset ==
    /\ last.stage = "done"
    /\ last.why = "no_crtc"
    /\ modeset_list[1].conn_id = last.conn_id
    /\ modeset_list[1].path = "search"
    /\ ~modeset_list[1].setmode

\* the iteration of the last connector ended on a failure of one of its steps
StepFailed ==
    /\ last.stage \in {"get_connector", "calloc", "connection", "modes", "mode",
                       "crtc", "fb"}
    /\ last.ret # RetOk \/ last.why = "encoder_null"

\* C5: when a step of the preparation of one connector fails, only that
\* connector's record is dropped: no record of the list is of that connector,
\* and the loop goes on behind it (platsch_init_ctx is in its loop or has
\* returned 0).
C5_FailureDropsOneRecord ==
    StepFailed =>
        /\ pc \in {"loop", "done"}
        /\ i > 0 /\ res.connectors[i] = last.conn_id
        /\ \A k \in 1..Len(modeset_list) : modeset_list[k].conn_id # last.conn_id

\* drmModeGetEncoder gave NULL for the active encoder of the second connector:
\* the process has aborted with the first connector's record prepared
C5_AbortOnEncoder ==
    /\ pc = "aborted"
    /\ last.stage = "crtc"
    /\ last.why = "encoder_null"
    /\ Len(modeset_list) = 1

\* SelectMode is about to run set_env_connector_mode on an override that
\* names a resolution
OverrideScan == sscanf_mode(mode_env.value)

HasOverride ==
    /\ pc = "have_conn"
    /\ conn.connection = DRM_MODE_CONNECTED
    /\ Len(conn.modes) > 0
    /\ mode_env.kind = "value"
    /\ OverrideScan.ret >= 2

Matches(k) ==
    /\ conn.modes[k].hdisplay = OverrideScan.width
    /\ conn.modes[k].vdisplay = OverrideScan.height

HasMatch == \E k \in 1..Len(conn.modes) : Matches(k)

LowestMatch == CHOOSE k \in 1..Len(conn.modes) :
                  Matches(k) /\ \A j \in 1..(k - 1) : ~Matches(j)

\* C8: with an override WxH, the record gets the lowest-indexed timing of the
\* connector whose hdisplay and vdisplay are W and H, and width W and height
\* H; when no timing matches, the step fails with -ENOENT and leaves the list
\* and the loop exactly as the step of an ineligible connector does (list
\* untouched, index advanced, locals reset); a record is only ever linked for
\* the connector of the current index, so the output stays absent.
C8_OverrideTiming ==
    [][ /\ (HasOverride /\ pc' # "aborted") =>
              IF HasMatch
              THEN /\ pc' = "crtc"
                   /\ dev'.mode = conn.modes[LowestMatch]
                   /\ dev'.width = OverrideScan.width
                   /\ dev'.height = OverrideScan.height
                   /\ modeset_list' = modeset_list
              ELSE /\ last'.stage = "mode"
                   /\ last'.ret = ENOENT
                   /\ last'.conn_id = conn.connector_id
                   /\ modeset_list' = modeset_list
                   /\ <<pc', i', root_node', conn', mode_env', dev', enc_i'>>
                        = <<"loop", i + 1, root_node, NoConn, NoLookup, NewDev, 0>>
        /\ modeset_list' # modeset_list =>
              /\ pc = "fb"
              /\ i' = i + 1
              /\ modeset_list'[1].conn_id = res.connectors[i + 1]
              /\ Tail(modeset_list') = modeset_list
      ]_vars

\* the first connector got the second timing of its list by 1280x720, the
\* second connector was dropped for an override no timing matches
C8_MatchThenNoMatch ==
    /\ pc = "loop"
    /\ last.stage = "mode"
    /\ last.ret = ENOENT
    /\ last.conn_id = ConnId(2)
    /\ Len(modeset_list) = 1
    /\ modeset_list[1].conn_id = ConnId(1)
    /\ modeset_list[1].mode = Mode720
    /\ modeset_list[1].width = 1280 /\ modeset_list[1].height = 720

\* C9: an override whose resolution matches a timing and whose suffix names
\* no entry of platsch_formats does not fail the output: the record goes on
\* to the CRTC allocation with the matched timing and the first format of the
\* table, RGB565.
C9_UnknownSuffixKeepsRecord ==
    [][ ( /\ HasOverride
          /\ OverrideScan.ret = 3
          /\ HasMatch
          /\ platsch_format_find(OverrideScan.fmt_specifier) = 0 ) =>
              /\ pc' = "crtc"
              /\ dev'.mode = conn.modes[LowestMatch]
              /\ platsch_formats[dev'.format].format = "DRM_FORMAT_RGB565"
      ]_vars

\* C9, for the suffixes that fit fmt_specifier: an override whose resolution
\* matches and whose suffix of at most FmtSpecSize - 1 characters names no
\* entry of platsch_formats keeps the record, with the matched timing and
\* RGB565.
C9_FittingSuffixKeepsRecord ==
    [][ ( /\ HasOverride
          /\ OverrideScan.ret = 3
          /\ HasMatch
          /\ ~OverrideScan.overflow
          /\ platsch_format_find(OverrideScan.fmt_specifier) = 0 ) =>
              /\ pc' = "crtc"
              /\ dev'.mode = conn.modes[LowestMatch]
              /\ platsch_formats[dev'.format].format = "DRM_FORMAT_RGB565"
      ]_vars

\* the process ended in set_env_connector_mode: the suffix did not fit
\* fmt_specifier
C9_AbortOnLongSuffix ==
    /\ pc = "aborted"
    /\ last.stage = "mode"
    /\ mode_env.kind = "value"
    /\ sscanf_mode(mode_env.value).overflow

\* the part of a record the CRTC allocation writes
CrtcPart(d) == <<d.crtc_id, d.setmode, d.path>>

\* d with the timing and the format of e
WithSelection(d, e) ==
    [d EXCEPT !.mode = e.mode, !.width = e.width, !.height = e.height,
              !.format = e.format]

\* what set_env_connector_mode can select from the timings ms: by no override
\* and by every override that parses and matches
SelectionsOf ==
    [ms \in ModeLists |->
        IF ms = <<>> THEN {}
        ELSE LET c == [NoConn EXCEPT !.modes = ms]
             IN  { set_env_connector_mode(c, NewDev, lk, "benign").dev :
                     lk \in { l \in Lookups :
                                set_env_connector_mode(c, NewDev, l, "benign").ret
                                  = RetOk } }]

Selections(c) == SelectionsOf[c.modes]

\* C10: for an override that parses and matches, the record carries the format
\* the override names; the crtc_id and the setmode the allocation then gives
\* are the same for every selection the connector could have got (no override
\* or another valid one), at each step of the allocation and at the linking.
C10_OverrideIndependence ==
    /\ [][ ( /\ HasOverride
             /\ OverrideScan.ret = 3
             /\ HasMatch
             /\ platsch_format_find(OverrideScan.fmt_specifier) # 0
             /\ pc' # "aborted" ) =>
                 /\ pc' = "crtc"
                 /\ platsch_formats[dev'.format].name = OverrideScan.fmt_specifier
                 /\ CrtcPart(dev') = CrtcPart(dev)
         ]_vars
    /\ [][ modeset_list' # modeset_list =>
                 /\ CrtcPart(modeset_list'[1]) = CrtcPart(dev)
                 /\ modeset_list'[1].format = dev.format
         ]_vars
    /\ [] ( pc = "crtc" =>
              \A e \in Selections(conn), enc \in ActiveAnswers :
                 LET a == drmprepare_crtc_active(modeset_list, conn, dev, enc, ndebug)
                     b == drmprepare_crtc_active(modeset_list, conn,
                                                 WithSelection(dev, e), enc, ndebug)
                 IN  /\ a.done = b.done
                     /\ a.aborted = b.aborted
                     /\ CrtcPart(a.dev) = CrtcPart(b.dev) )
    /\ [] ( pc = "search" =>
              \A e \in Selections(conn), enc \in SearchAnswers :
                 LET a == drmprepare_crtc_encoder(modeset_list, res, dev, enc)
                     b == drmprepare_crtc_encoder(modeset_list, res,
                                                  WithSelection(dev, e), enc)
                 IN  /\ a.done = b.done
                     /\ CrtcPart(a.dev) = CrtcPart(b.dev) )

\* a record with the format and the timing of 1280x720@XRGB8888 on the CRTC
\* of its active encoder, no mode-set needed
C10_OverrideOnReusedCrtc ==
    /\ Len(modeset_list) >= 1
    /\ platsch_formats[modeset_list[1].format].name = NameXRGB8888
    /\ modeset_list[1].mode = Mode720
    /\ modeset_list[1].path = "reuse"
    /\ ~modeset_list[1].setmode

\* SelectMode is about to run set_env_connector_mode for an eligible connector
Eligible ==
    /\ pc = "have_conn"
    /\ conn.connection = DRM_MODE_CONNECTED
    /\ Len(conn.modes) > 0

NoOverride == mode_env.kind \in {"unset", "no_type_name"}

\* the override names a resolution that matches and no entry of platsch_formats
NoUsableFormat ==
    /\ HasOverride
    /\ HasMatch
    /\ platsch_format_find(OverrideScan.fmt_specifier) = 0

\* C11 as stated: with no override, or with an override that supplies no
\* usable format, the record has the connector's first timing and the first
\* format of the table.
C11_FirstTimingDefaultFormat ==
    [][ (Eligible /\ (NoOverride \/ NoUsableFormat) /\ pc' = "crtc") =>
            /\ dev'.mode = conn.modes[1]
            /\ dev'.format = 1
      ]_vars

\* C11, amended: with no override the record has the connector's first timing,
\* its hdisplay and vdisplay as width and height, and the first format of the
\* table; with an override that matches a timing and supplies no usable format
\* (no suffix, or one of at most FmtSpecSize - 1 characters that names no
\* format) the record has the lowest-indexed matching timing and the first
\* format of the table.
C11_DefaultFormatKeepsMatch ==
    [][ /\ (Eligible /\ NoOverride) =>
              /\ pc' = "crtc"
              /\ dev'.mode = conn.modes[1]
              /\ dev'.width = conn.modes[1].hdisplay
              /\ dev'.height = conn.modes[1].vdisplay
              /\ platsch_formats[dev'.format].format = "DRM_FORMAT_RGB565"
        /\ (Eligible /\ NoUsableFormat /\ ~OverrideScan.overflow) =>
              /\ pc' = "crtc"
              /\ dev'.mode = conn.modes[LowestMatch]
              /\ dev'.width = OverrideScan.width
              /\ dev'.height = OverrideScan.height
              /\ platsch_formats[dev'.format].format = "DRM_FORMAT_RGB565"
      ]_vars

\* the override 1280x720, without a suffix, gave the second connector the
\* second timing of its list and RGB565; the first connector, without an
\* override, has the first timing
C11_SecondTimingByOverride ==
    /\ Len(modeset_list) = 1
    /\ modeset_list[1].mode = Mode1080
    /\ modeset_list[1].format = 1
    /\ pc = "crtc"
    /\ dev.mode = Mode720
    /\ dev.format = 1
    /\ dev.width = 1280 /\ dev.height = 720

\* C12: platsch_init_ctx walks the connectors once; the walk of a connector
\* ends with exactly one new record for it at the head of the list, the
\* records before untouched, if the connector is connected, has a timing and
\* passed every step, and with the list and the kernel's objects as they were
\* if it is not; no other step changes the list, and the return after the
\* last connector is the successful one whatever the list holds.
C12_OneRecordPerEligibleConnector ==
    [][ /\ (pc' = "crtc") => Eligible
        /\ (pc' = "fb") => pc \in {"crtc", "search"}
        /\ (pc = "have_conn" /\ ~Eligible) =>
              /\ pc' = "loop"
              /\ i' = i + 1
              /\ last'.stage \in {"connection", "modes"}
        /\ (i' = i + 1) =>
              IF pc = "fb" /\ last'.stage = "done"
              THEN /\ modeset_list' = <<modeset_list'[1]>> \o modeset_list
                   /\ modeset_list'[1].conn_id = res.connectors[i + 1]
                   /\ modeset_list'[1].crtc_id # 0
              ELSE /\ last'.stage # "done"
                   /\ modeset_list' = modeset_list
                   /\ kernel' = kernel
        /\ (i' = i) => (modeset_list' = modeset_list /\ kernel' = kernel)
        /\ (pc' = "done") => (pc = "loop" /\ i = res.count_connectors)
      ]_vars

\* C12 witness: of two connectors the first got the only record and the second
\* was not connected, and platsch_init_ctx has returned.
C12_OneOfTwoEligible ==
    /\ pc = "done"
    /\ res.count_connectors = 2
    /\ Len(modeset_list) = 1
    /\ modeset_list[1].conn_id = res.connectors[1]
    /\ last.conn_id = res.connectors[2]
    /\ last.stage = "connection"

\* the mapping of a record, as the kernel keeps it
MappingOf(d) == { m \in kernel.maps : m.addr = d.map }

\* C17: platsch_init_ctx leaves every record of the list with one mapping of
\* the record's full size whose every byte is zero.
C17_MappingsZeroAfterInit ==
    \A k \in 1..Len(modeset_list) :
        MappingOf(modeset_list[k]) =
            { [addr |-> modeset_list[k].map, size |-> modeset_list[k].size,
               mem |-> <<[len |-> modeset_list[k].size, val |-> "zero"]>>] }

\* C17 witness: platsch_init_ctx has returned with two records of different
\* buffer sizes, both mapped.
C17_TwoBuffers ==
    /\ pc = "done"
    /\ Len(modeset_list) = 2
    /\ modeset_list[1].size # modeset_list[2].size
    /\ \A k \in 1..2 : MappingOf(modeset_list[k]) # {}

\* the calls of a log that made an object, and those that released one
Creates(os) ==
    SelectSeq(os, LAMBDA o : o.ok /\ o.op \in {"DRM_IOCTL_MODE_CREATE_DUMB",
                                               "drmModeAddFB2", "mmap"})

Releases(os) ==
    SelectSeq(os, LAMBDA o : o.op \in {"DRM_IOCTL_MODE_DESTROY_DUMB",
                                       "drmModeRmFB", "munmap"})

\* the call that releases what the call o made
ReleaseOf(o) ==
    Op(CASE o.op = "DRM_IOCTL_MODE_CREATE_DUMB" -> "DRM_IOCTL_MODE_DESTROY_DUMB"
         [] o.op = "drmModeAddFB2" -> "drmModeRmFB"
         [] o.op = "mmap" -> "munmap",
       o.id, 0, TRUE)

Reverse(q) == [k \in 1..Len(q) |-> q[Len(q) + 1 - k]]

\* modeset_create_fb got its dumb buffer and a later call of it failed
FailedAfterDumb(os) ==
    /\ Len(os) > 1
    /\ os[1].op = "DRM_IOCTL_MODE_CREATE_DUMB"
    /\ os[1].ok
    /\ \E k \in 2..Len(os) : ~os[k].ok

\* C20: when modeset_create_fb fails after the dumb buffer was allocated, the
\* calls that follow the failing one release exactly the objects made so far,
\* the last made first, and the kernel holds what it held before the call.
C20_UnwindInReverse ==
    [][ (pc = "fb" /\ FailedAfterDumb(ops')) =>
          /\ \E n \in 2..Len(ops') :
                /\ ~ops'[n].ok
                /\ \A k \in 1..(n - 1) : ops'[k].ok
                /\ SubSeq(ops', n + 1, Len(ops')) = Releases(ops')
          /\ Releases(ops') =
                [k \in 1..Len(Creates(ops')) |->
                    ReleaseOf(Reverse(Creates(ops'))[k])]
          /\ kernel' = kernel
          /\ modeset_list' = modeset_list
          /\ last'.stage = "fb"
      ]_vars

\* C20 witness: the mmap for a second record failed: framebuffer and dumb
\* buffer of it are gone, those of the first record are kept.
C20_MmapFailedOnSecond ==
    /\ pc = "loop"
    /\ last.stage = "fb"
    /\ Len(modeset_list) = 1
    /\ \E k \in 1..Len(ops) : ops[k].op = "mmap" /\ ~ops[k].ok
    /\ Releases(ops) = <<Op("drmModeRmFB", 62, 0, TRUE),
                         Op("DRM_IOCTL_MODE_DESTROY_DUMB", 2, 0, TRUE)>>
    /\ kernel.fbs = {61}
    /\ kernel.dumbs = {1}

(***************************************************************************)
(* platsch_draw: one step per record of the list.  The record's buffer is  *)
(* filled, then drmModeSetCrtc or drmModePageFlip is called; drawn is the  *)
(* ghost log of the pass.                                                  *)
(***************************************************************************)
initVars == <<res, i, root_node, conn, mode_env, dev, enc_i, why, last>>

\* the flag never cleared, as in the one pass of platsch.c
platsch_draw_present_keep(d, ok) ==
    IF d.setmode
    THEN [call |-> "drmModeSetCrtc", dev |-> d]
    ELSE [call |-> "drmModePageFlip", dev |-> d]

\* the flag cleared whatever drmModeSetCrtc returns
platsch_draw_present_clear(d, ok) ==
    IF d.setmode
    THEN [call |-> "drmModeSetCrtc", dev |-> [d EXCEPT !.setmode = FALSE]]
    ELSE [call |-> "drmModePageFlip", dev |-> d]

\* the CRTC given up when drmModeSetCrtc fails
platsch_draw_present_unbind(d, ok) ==
    IF d.setmode
    THEN [call |-> "drmModeSetCrtc",
          dev |-> [d EXCEPT !.setmode = ~ok,
                            !.crtc_id = IF ok THEN @ ELSE 0]]
    ELSE [call |-> "drmModePageFlip", dev |-> d]

\* the presentation of one record; ok is what the kernel call returns
platsch_draw_present(d, ok) ==
    IF d.setmode
    THEN [call |-> "drmModeSetCrtc", dev |-> [d EXCEPT !.setmode = ~ok]]
    ELSE [call |-> "drmModePageFlip", dev |-> d]

\* what read() returns and stores for a request without the count
read_unbounded(f, pos, count) ==
    IF f.err_at = pos THEN -1
    ELSE IF f.len <= pos THEN 0
    ELSE Min(f.len - pos, f.chunk)

\* what read(fd, buf, count) returns at file offset pos: -1, 0 at the end of
\* the file, else the bytes stored, never more than count
read(f, pos, count) ==
    IF f.err_at = pos THEN -1
    ELSE IF f.len <= pos THEN 0
    ELSE Min(Min(f.len - pos, f.chunk), count)

RECURSIVE readfull(_, _, _, _, _)
readfull(f, buf, pos, count, ret) ==
    IF count <= 0 THEN [ret |-> ret, ops |-> <<>>]
    ELSE LET err == read(f, pos, count)
             o == [op |-> "read", id |-> buf, at |-> pos,
                   size |-> IF err < 0 THEN 0 ELSE err, ok |-> err >= 0]
         IN  IF err < 0 THEN [ret |-> err, ops |-> <<o>>]
             ELSE IF err > 0
             THEN LET rest == readfull(f, buf, pos + err, count - err, ret + err)
                  IN  [ret |-> rest.ret, ops |-> <<o>> \o rest.ops]
             ELSE [ret |-> ret, ops |-> <<o>>]

\* the image file: asprintf, open, readfull into the mapping, close
platsch_draw_buffer(f, d) ==
    IF ~f.asprintf_ok THEN <<Op("asprintf", 0, 0, FALSE)>>
    ELSE IF ~f.open_ok
    THEN <<Op("asprintf", 0, 0, TRUE), Op("open", 0, 0, FALSE)>>
    ELSE <<Op("asprintf", 0, 0, TRUE), Op("open", 0, 0, TRUE)>>
         \o readfull(f, d.map, 0, d.size, 0).ops
         \o <<Op("close", 0, 0, TRUE)>>

\* the callback called with the record's description and the priv pointer
platsch_custom_draw_buffer(cd, d) ==
    << [op |-> "custom_draw_buffer_cb", id |-> d.map, size |-> d.size,
        ok |-> TRUE, cb |-> cd.cb, priv |-> cd.priv,
        buf |-> [width |-> d.width, height |-> d.height, stride |-> d.stride,
                 size |-> d.size, format |-> platsch_formats[d.format].format,
                 fb_id |-> d.fb_id, fb |-> d.map]] >>

\* the loader always, whatever is registered
platsch_draw_fill_loader(cd, f, d) == platsch_draw_buffer(f, d)

\* no fill attempted at all when the image file is not there
platsch_draw_fill_skip(cd, f, d) ==
    IF cd.cb # 0 THEN platsch_custom_draw_buffer(cd, d)
    ELSE IF f.asprintf_ok /\ f.open_ok THEN platsch_draw_buffer(f, d)
    ELSE <<>>

\* "draw first then set the mode": the callback if one is registered
platsch_draw_fill(cd, f, d) ==
    IF cd.cb # 0 THEN platsch_custom_draw_buffer(cd, d)
    ELSE platsch_draw_buffer(f, d)

\* platsch_register_custom_draw_cb with a context: the pair is stored
RegisterCb ==
    /\ pc = "done"
    /\ ctx_valid
    /\ \E cb \in Callbacks, priv \in Privs :
          custom_draw' = [cb |-> cb, priv |-> priv]
    /\ custom_draw' # custom_draw
    /\ UNCHANGED <<pc, ndebug, loader_env, proc, topology, kernelVars, modeset_list, drawVars,
                   initVars, probeVars>>

\* platsch_draw is called: the cursor is set to the head of the list
DrawBegin ==
    /\ pc = "done"
    /\ passes < MaxPasses
    /\ pc' = "draw"
    /\ iter' = 1
    /\ passes' = passes + 1
    /\ ops' = <<>>
    /\ UNCHANGED <<ndebug, envVars, kernel, modeset_list, drawn, initVars, probeVars>>

\* one iteration of the loop over the list
DrawRecord ==
    /\ pc = "draw"
    /\ iter <= Len(modeset_list)
    /\ \E ok \in kernel.present :
          LET d == modeset_list[iter]
              fill == platsch_draw_fill(custom_draw, loader_env, d)
              r == platsch_draw_present(d, ok)
              os == fill \o <<Op(r.call, d.crtc_id, 0, ok)>>
          IN  /\ modeset_list' = [modeset_list EXCEPT ![iter] = r.dev]
              /\ drawn' = Append(drawn, [pass |-> passes,
                                         conn_id |-> d.conn_id,
                                         call |-> r.call, ok |-> ok])
              /\ ops' = ops \o os
              /\ kernel' = ApplyOps(kernel, os)
    /\ iter' = iter + 1
    /\ UNCHANGED <<pc, ndebug, envVars, passes, initVars, probeVars>>

\* the cursor is past the last record: platsch_draw returns
DrawEnd ==
    /\ pc = "draw"
    /\ iter > Len(modeset_list)
    /\ pc' = "done"
    /\ UNCHANGED <<ndebug, envVars, kernelVars, modeset_list, drawVars, initVars, probeVars>>

\* how a record got its CRTC and the flag it got with it
CrtcOutcomes ==
    { [path |-> "reuse", setmode |-> FALSE],
      [path |-> "search", setmode |-> TRUE],
      [path |-> "search", setmode |-> FALSE] }

\* a record as platsch_init_ctx leaves it, for connector k on CRTC j
PreparedDev(k, j, o) ==
    [conn_id |-> ConnId(k), width |-> 1920, height |-> 1080, stride |-> 3840,
     size |-> 3840 * 1080, format |-> 1, handle |-> k, map |-> 4096 * k,
     setmode |-> o.setmode, mode |-> Mode1080, fb_id |-> 60 + k,
     crtc_id |-> CrtcId(j), path |-> o.path]

\* lists platsch_init_ctx can leave with n records: each record on a CRTC of
\* its own (which one plays no part in platsch_draw: connector k is given
\* CRTC k), the connector prepared last at the head
PreparedListsOf(n) ==
    { [p \in 1..n |-> PreparedDev(n + 1 - p, n + 1 - p, o[n + 1 - p])] :
        o \in [1..n -> CrtcOutcomes] }

\* the objects modeset_create_fb made for the records of a list
PreparedKernel(list) ==
    [NoKernel EXCEPT
        !.dumbs = { list[k].handle : k \in 1..Len(list) },
        !.fbs = { list[k].fb_id : k \in 1..Len(list) },
        !.maps = { [addr |-> list[k].map, size |-> list[k].size,
                    mem |-> MemFill(list[k].size, "zero")] :
                   k \in 1..Len(list) },
        !.master = TRUE]

PreparedLists == UNION { PreparedListsOf(n) : n \in 0..Min(NumConnectors, NumCrtcs) }

InitDraw ==
    /\ pc = "done"
    /\ ndebug \in BOOLEAN
    /\ ctx_valid = TRUE
    /\ drmfd = 3
    /\ modeset_list \in PreparedLists
    /\ res = NoRes
    /\ i = 0
    /\ root_node = TRUE
    /\ conn = NoConn
    /\ mode_env = NoLookup
    /\ dev = NewDev
    /\ enc_i = 0
    /\ why = "none"
    /\ last = NoLast
    /\ iter = 0
    /\ drawn = <<>>
    /\ passes = 0
    /\ probe_i = 0
    /\ devnodes = <<>>
    /\ open_fds = {[fd |-> 3, node |-> 0]}
    /\ opened = {0}
    /\ kernel = PreparedKernel(modeset_list)
    /\ ops = <<>>
    /\ custom_draw = NoCb
    /\ loader_env = FullFile
    /\ proc = NoProc
    /\ topology = NoTopology

NextDraw == DrawBegin \/ DrawRecord \/ DrawEnd

SpecDraw == InitDraw /\ [][NextDraw]_vars

(***************************************************************************)
(* Properties of platsch_draw, checked under SpecDraw.                     *)
(***************************************************************************)
\* the calls of pass p, in the order issued
CallsOfPass(p) ==
    LET InPass(e) == e.pass = p
    IN  SelectSeq(drawn, InPass)

\* C3: when a platsch_draw pass has returned, one call was issued for each
\* record of the list, in list order, and a record still has setmode true
\* only if its call in this pass was a drmModeSetCrtc that failed.
C3_PassClearsModeset ==
    (pc = "done" /\ passes > 0) =>
        LET cur == CallsOfPass(passes)
        IN  /\ Len(cur) = Len(modeset_list)
            /\ \A k \in 1..Len(modeset_list) :
                  /\ cur[k].conn_id = modeset_list[k].conn_id
                  /\ modeset_list[k].setmode =>
                        cur[k].call = "drmModeSetCrtc" /\ ~cur[k].ok

\* after the first pass over two records that both needed a mode-set: the
\* head's failed and the flag is still set, the other's succeeded
C3_OneFailedOneSet ==
    /\ pc = "done"
    /\ passes = 1
    /\ Len(modeset_list) = 2
    /\ drawn[1].call = "drmModeSetCrtc" /\ ~drawn[1].ok
    /\ drawn[2].call = "drmModeSetCrtc" /\ drawn[2].ok
    /\ modeset_list[1].setmode
    /\ ~modeset_list[2].setmode

\* C4: over any number of passes, setmode of a record changes only from true
\* to false and only in the step that issues a successful drmModeSetCrtc for
\* that record; the call issued for a record is drmModeSetCrtc exactly when
\* its setmode is true, a failed drmModeSetCrtc leaves it true, a
\* drmModePageFlip leaves it false whatever it returns; so in the next pass a
\* failed mode-set is followed by a mode-set, and from a successful mode-set
\* on every later call for the record is a page flip.
C4_ModesetOnlyClearedBySuccess ==
    /\ [][ /\ Len(modeset_list') = Len(modeset_list)
           /\ \A k \in 1..Len(modeset_list) :
                 /\ modeset_list'[k].setmode # modeset_list[k].setmode =>
                       /\ modeset_list[k].setmode /\ ~modeset_list'[k].setmode
                       /\ pc = "draw" /\ iter = k
                       /\ Len(drawn') = Len(drawn) + 1
                       /\ drawn'[Len(drawn')] =
                            [pass |-> passes, conn_id |-> modeset_list[k].conn_id,
                             call |-> "drmModeSetCrtc", ok |-> TRUE]
                 /\ (pc = "draw" /\ iter = k /\ iter' = k + 1) =>
                       LET e == drawn'[Len(drawn')]
                       IN  /\ Len(drawn') = Len(drawn) + 1
                           /\ e.conn_id = modeset_list[k].conn_id
                           /\ e.call = IF modeset_list[k].setmode
                                       THEN "drmModeSetCrtc" ELSE "drmModePageFlip"
                           /\ (e.call = "drmModeSetCrtc" /\ ~e.ok) =>
                                 modeset_list'[k].setmode
                           /\ e.call = "drmModePageFlip" =>
                                 ~modeset_list'[k].setmode
         ]_vars
    /\ [] ( \A a, b \in 1..Len(drawn) :
              (a < b /\ drawn[a].conn_id = drawn[b].conn_id) =>
                 /\ drawn[b].pass > drawn[a].pass
                 /\ (drawn[a].call = "drmModeSetCrtc" /\ ~drawn[a].ok
                     /\ drawn[b].pass = drawn[a].pass + 1) =>
                        drawn[b].call = "drmModeSetCrtc"
                 /\ (drawn[a].call = "drmModePageFlip" \/ drawn[a].ok) =>
                        drawn[b].call = "drmModePageFlip" )

\* three passes over one record: the mode-set failed, then succeeded, then
\* the page was flipped, and that flip failed
C4_FailSetFlip ==
    \E a, b, c \in 1..Len(drawn) :
        /\ drawn[a].conn_id = drawn[b].conn_id /\ drawn[b].conn_id = drawn[c].conn_id
        /\ drawn[a].pass = 1 /\ drawn[b].pass = 2 /\ drawn[c].pass = 3
        /\ drawn[a].call = "drmModeSetCrtc" /\ ~drawn[a].ok
        /\ drawn[b].call = "drmModeSetCrtc" /\ drawn[b].ok
        /\ drawn[c].call = "drmModePageFlip" /\ ~drawn[c].ok

(***************************************************************************)
(* platsch_alloc_ctx: the probe of /dev/dri/card0 .. card63, one step per  *)
(* candidate.  devnodes[k + 1] is what candidate k does: "noent" cannot be *)
(* opened, "nores" opens and fails DRM_IOCTL_MODE_GETRESOURCES, "ok" opens *)
(* and answers it.                                                         *)
(***************************************************************************)
\* open() returns the lowest descriptor not in use, above stdin/stdout/stderr
LowestFreeFd(fds) == CHOOSE n \in 3..(3 + Cardinality(fds)) :
                        /\ n \notin { f.fd : f \in fds }
                        /\ \A m \in 3..(n - 1) : m \in { f.fd : f \in fds }

\* the descriptor table after open() succeeded on a node, and after close()
fd_open(fds, node) == fds \cup {[fd |-> LowestFreeFd(fds), node |-> node]}
\* the close() left out
fd_close_skipped(fds, fd) == fds

fd_close(fds, fd) == { f \in fds : f.fd # fd }

\* err_out: the context is freed and NULL is returned
AllocFail(reason) ==
    /\ pc' = "alloc_failed"
    /\ ctx_valid' = FALSE
    /\ why' = reason

\* platsch_alloc_ctx is called: the context is calloc'ed, drmfd is 0
AllocCtx ==
    /\ pc = "alloc_entry"
    /\ \E calloc_ok \in BOOLEAN :
          IF calloc_ok
          THEN /\ pc' = "alloc"
               /\ ctx_valid' = TRUE
               /\ UNCHANGED why
          ELSE AllocFail("calloc")
    /\ drmfd' = 0
    /\ probe_i' = 0
    /\ UNCHANGED <<ndebug, envVars, kernelVars, modeset_list, res, i, root_node, conn, mode_env, dev,
                   enc_i, last, drawVars, devnodes, open_fds, opened>>

\* one iteration of the loop over the candidates
ProbeCandidate ==
    /\ pc = "alloc"
    /\ probe_i < NumProbes
    /\ \E asprintf_ok \in BOOLEAN :
        LET node == devnodes[probe_i + 1]
            fd == LowestFreeFd(open_fds)
        IN  CASE ~asprintf_ok ->
                   /\ AllocFail("asprintf")
                   /\ UNCHANGED <<drmfd, open_fds, opened, probe_i>>
              [] asprintf_ok /\ node = "noent" ->
                   \* open() fails: goto err_out
                   /\ AllocFail("open")
                   /\ UNCHANGED <<drmfd, open_fds, opened, probe_i>>
              [] asprintf_ok /\ node = "nores" ->
                   \* opened, the ioctl fails: close(drmfd), continue
                   /\ opened' = opened \cup {probe_i}
                   /\ open_fds' = fd_close(fd_open(open_fds, probe_i), fd)
                   /\ probe_i' = probe_i + 1
                   /\ UNCHANGED <<pc, ctx_valid, drmfd, why>>
              [] asprintf_ok /\ node = "ok" ->
                   \* opened, the ioctl succeeds: ctx->drmfd = drmfd, break
                   /\ opened' = opened \cup {probe_i}
                   /\ open_fds' = fd_open(open_fds, probe_i)
                   /\ drmfd' = fd
                   /\ pc' = "allocated"
                   /\ UNCHANGED <<ctx_valid, probe_i, why>>
    /\ UNCHANGED <<ndebug, envVars, kernelVars, modeset_list, res, i, root_node, conn, mode_env, dev,
                   enc_i, last, drawVars, devnodes>>

\* the loop ran out of candidates: the context is returned as it is
ProbeExhausted ==
    /\ pc = "alloc"
    /\ probe_i = NumProbes
    /\ pc' = "allocated"
    /\ UNCHANGED <<ndebug, envVars, kernelVars, modeset_list, initVars, drawVars, probeVars>>

NodeKinds == {"noent", "nores", "ok"}

\* the device directories: any kind of node at the first MaxVaried indices and
\* at the last one, nodes that open and are no KMS device in between
DevNodes ==
    { [k \in 1..NumProbes |->
          IF k <= MaxVaried THEN head[k]
          ELSE IF k = NumProbes THEN lastnode ELSE "nores"] :
        head \in [1..MaxVaried -> NodeKinds], lastnode \in NodeKinds }

InitProbe ==
    /\ pc = "alloc_entry"
    /\ ndebug \in BOOLEAN
    /\ ctx_valid = FALSE
    /\ drmfd = 0
    /\ modeset_list = <<>>
    /\ res = NoRes
    /\ i = 0
    /\ root_node = TRUE
    /\ conn = NoConn
    /\ mode_env = NoLookup
    /\ dev = NewDev
    /\ enc_i = 0
    /\ why = "none"
    /\ last = NoLast
    /\ iter = 0
    /\ drawn = <<>>
    /\ passes = 0
    /\ probe_i = 0
    /\ devnodes \in DevNodes
    /\ open_fds = {}
    /\ opened = {}
    /\ kernel = NoKernel
    /\ ops = <<>>
    /\ custom_draw = NoCb
    /\ loader_env = FullFile
    /\ proc = NoProc
    /\ topology = NoTopology

NextProbe == AllocCtx \/ ProbeCandidate \/ ProbeExhausted

SpecProbe == InitProbe /\ [][NextProbe]_vars

(***************************************************************************)
(* Properties of platsch_alloc_ctx, checked under SpecProbe.               *)
(***************************************************************************)
\* platsch_alloc_ctx has returned, and not for want of memory
ProbeReturned ==
    /\ pc \in {"allocated", "alloc_failed"}
    /\ why \notin {"calloc", "asprintf"}

Candidates == 0..(NumProbes - 1)

Lowest(S) == CHOOSE k \in S : \A m \in S : k <= m

\* C6: if no candidate returns resources, platsch_alloc_ctx returns no
\* context, and no descriptor of a device node is left open.
C6_NoDeviceNoContext ==
    (ProbeReturned /\ \A k \in Candidates : devnodes[k + 1] # "ok") =>
        /\ pc = "alloc_failed"
        /\ ~ctx_valid
        /\ open_fds = {}

\* all 64 candidates opened and none answered: a context is returned, with
\* the drmfd 0 that calloc left
C6_ContextWithoutDevice ==
    /\ pc = "allocated"
    /\ probe_i = NumProbes
    /\ \A k \in Candidates : devnodes[k + 1] = "nores"
    /\ ctx_valid
    /\ drmfd = 0
    /\ open_fds = {}

\* C7 as stated: whatever the candidates do, the handle is the lowest
\* candidate that opens and returns resources, it is the only descriptor
\* open, and no candidate behind it has been opened.
C7_LowestWorkingCandidate ==
    (ProbeReturned /\ \E k \in Candidates : devnodes[k + 1] = "ok") =>
        LET w == Lowest({ k \in Candidates : devnodes[k + 1] = "ok" })
        IN  /\ pc = "allocated"
            /\ ctx_valid
            /\ open_fds = {[fd |-> drmfd, node |-> w]}
            /\ w \in opened
            /\ \A k \in opened : k <= w

\* C7, amended: the probe stops at the lowest candidate that either cannot be
\* opened or returns resources.  If it returns resources it is the handle,
\* the only descriptor open, and exactly the candidates up to it were opened;
\* if it cannot be opened no context is returned, no descriptor is open, and
\* exactly the candidates before it were opened.  While the probe runs, and
\* when it runs out of candidates, every candidate opened has been closed.
C7_FirstDecisiveCandidate ==
    /\ pc = "alloc" => open_fds = {} /\ opened = 0..(probe_i - 1)
    /\ ProbeReturned =>
          LET decisive == { k \in Candidates : devnodes[k + 1] # "nores" }
              s == Lowest(decisive)
          IN  IF decisive = {}
              THEN open_fds = {} /\ opened = Candidates
              ELSE IF devnodes[s + 1] = "ok"
              THEN /\ pc = "allocated"
                   /\ ctx_valid
                   /\ open_fds = {[fd |-> drmfd, node |-> s]}
                   /\ opened = 0..s
              ELSE /\ pc = "alloc_failed"
                   /\ ~ctx_valid
                   /\ open_fds = {}
                   /\ opened = 0..(s - 1)

\* card1 is the handle, after card0 was opened, gave no resources and was
\* closed
C7_SecondCandidateWins ==
    /\ pc = "allocated"
    /\ devnodes[1] = "nores" /\ devnodes[2] = "ok"
    /\ opened = {0, 1}
    /\ open_fds = {[fd |-> drmfd, node |-> 1]}

(***************************************************************************)
(* platsch_destroy_ctx, on a context platsch_init_ctx has prepared.  The   *)
(* process may or may not be DRM master when it is called.                 *)
(***************************************************************************)

\* drmDropMaster whatever drmIsMaster says, as at the end of platsch.c's main
destroy_master_always(kern, ok) ==
    <<Op("drmIsMaster", 0, 0, kern.master), Op("drmDropMaster", 0, 0, ok)>>

\* the head of platsch_destroy_ctx; ok is what drmDropMaster returns
destroy_master(kern, ok) ==
    IF kern.master
    THEN <<Op("drmIsMaster", 0, 0, TRUE), Op("drmDropMaster", 0, 0, ok)>>
    ELSE <<Op("drmIsMaster", 0, 0, FALSE)>>

\* platsch_destroy_ctx is called: mastership is looked at and dropped
DestroyBegin ==
    /\ pc = "done"
    /\ ctx_valid
    /\ \E ok \in BOOLEAN :
          /\ ops' = destroy_master(kernel, ok)
          /\ kernel' = ApplyOps(kernel, ops')
    /\ pc' = "destroy"
    /\ UNCHANGED <<ndebug, envVars, modeset_list, drawVars, initVars,
                   probeVars>>

\* one turn of the loop over the list: free(mode)
DestroyFree ==
    /\ pc = "destroy"
    /\ modeset_list # <<>>
    /\ ops' = Append(ops, Op("free(mode)", modeset_list[1].conn_id, 0, TRUE))
    /\ kernel' = ApplyOps(kernel, <<ops'[Len(ops')]>>)
    /\ modeset_list' = Tail(modeset_list)
    /\ UNCHANGED <<pc, ndebug, envVars, drawVars, initVars, probeVars>>

\* free(ctx->dir), free(ctx->base), free(ctx): the context is gone
DestroyEnd ==
    /\ pc = "destroy"
    /\ modeset_list = <<>>
    /\ ops' = ops \o <<Op("free(ctx->dir)", 0, 0, TRUE),
                       Op("free(ctx->base)", 0, 0, TRUE),
                       Op("free(ctx)", 0, 0, TRUE)>>
    /\ ctx_valid' = FALSE
    /\ pc' = "destroyed"
    /\ UNCHANGED <<ndebug, drmfd, envVars, kernel, modeset_list, drawVars,
                   initVars, probe_i, devnodes, open_fds, opened>>

InitDestroy ==
    /\ pc = "done"
    /\ ndebug \in BOOLEAN
    /\ ctx_valid = TRUE
    /\ drmfd = 3
    /\ modeset_list \in PreparedLists
    /\ res = NoRes
    /\ i = 0
    /\ root_node = TRUE
    /\ conn = NoConn
    /\ mode_env = NoLookup
    /\ dev = NewDev
    /\ enc_i = 0
    /\ why = "none"
    /\ last = NoLast
    /\ iter = 0
    /\ drawn = <<>>
    /\ passes = 0
    /\ probe_i = 0
    /\ devnodes = <<>>
    /\ open_fds = {[fd |-> 3, node |-> 0]}
    /\ opened = {0}
    /\ \E master \in BOOLEAN :
          kernel = [PreparedKernel(modeset_list) EXCEPT !.master = master]
    /\ ops = <<>>
    /\ custom_draw = NoCb
    /\ loader_env = FullFile
    /\ proc = NoProc
    /\ topology = NoTopology

NextDestroy == DestroyBegin \/ DestroyFree \/ DestroyEnd

SpecDestroy == InitDestroy /\ [][NextDestroy]_vars

(***************************************************************************)
(* Claims about platsch_destroy_ctx, checked under SpecDestroy.            *)
(***************************************************************************)

\* the records a log has freed
FreedRecords(os) == SelectSeq(os, LAMBDA o : o.op = "free(mode)")

\* C13: once platsch_destroy_ctx has returned, no mapping, framebuffer or dumb
\* buffer of a record is left: each was released before its record was freed.
C13_NothingOutlivesContext ==
    (pc = "destroyed") =>
        /\ kernel.maps = {}
        /\ kernel.fbs = {}
        /\ kernel.dumbs = {}
        /\ Len(Releases(ops)) = 3 * Len(FreedRecords(ops))

\* C13, the state that refutes it: the context and its two records are freed
\* and their mappings, framebuffers and dumb buffers are all still there.
C13_BuffersLeaked ==
    /\ pc = "destroyed"
    /\ ~ctx_valid
    /\ modeset_list = <<>>
    /\ Len(FreedRecords(ops)) = 2
    /\ Cardinality(kernel.maps) = 2
    /\ kernel.fbs = {61, 62}
    /\ kernel.dumbs = {1, 2}

\* C14: once platsch_destroy_ctx has returned the device handle is closed, and
\* the close is the last call made on the device.
C14_DeviceClosedLast ==
    (pc = "destroyed") =>
        /\ \A f \in open_fds : f.fd # drmfd
        /\ \E n \in 1..Len(ops) :
              /\ ops[n].op = "close"
              /\ ops[n].id = drmfd
              /\ \A k \in (n + 1)..Len(ops) :
                    ops[k].op \in {"free(mode)", "free(ctx->dir)",
                                   "free(ctx->base)", "free(ctx)"}

\* C14, the state that refutes it: the context is freed, the descriptor is
\* still open and no close was called.
C14_DeviceLeftOpen ==
    /\ pc = "destroyed"
    /\ ~ctx_valid
    /\ [fd |-> drmfd, node |-> 0] \in open_fds
    /\ \A k \in 1..Len(ops) : ops[k].op # "close"

\* the drmDropMaster calls of a log
DropCalls(os) == SelectSeq(os, LAMBDA o : o.op = "drmDropMaster")

\* C15: platsch_destroy_ctx calls drmDropMaster once if the process is master
\* when it is called and not at all if it is not; after the mastership step
\* the process is master only if that call failed, and nothing else in the
\* teardown changes mastership.
C15_MasterDroppedIfHeld ==
    [][ /\ (pc = "done" /\ pc' = "destroy") =>
              /\ kernel.master => Len(DropCalls(ops')) = 1
              /\ ~kernel.master => DropCalls(ops') = <<>>
              /\ kernel'.master <=>
                    (kernel.master /\ ~DropCalls(ops')[1].ok)
        /\ (pc = "destroy") =>
              /\ kernel'.master = kernel.master
              /\ DropCalls(ops') = DropCalls(ops)
      ]_vars

\* C15 witness: the teardown of a master with one record is over, the one
\* drmDropMaster succeeded and the process is no longer master.
C15_DroppedAtTeardown ==
    /\ pc = "destroyed"
    /\ DropCalls(ops) = <<Op("drmDropMaster", 0, 0, TRUE)>>
    /\ ~kernel.master
    /\ Len(FreedRecords(ops)) = 1

(***************************************************************************)
(* The fill of platsch_draw: the image file as the loader finds it is      *)
(* fixed at the start, callbacks are registered and unregistered between   *)
(* passes, and the device either takes or refuses every presentation.      *)
(***************************************************************************)

BufSize == 3840 * 1080

\* the image files of the model: missing name, missing file, empty, short,
\* short and read in two pieces, failing after a piece, full, too long
LoaderEnvs ==
    { FullFile,
      [FullFile EXCEPT !.asprintf_ok = FALSE],
      [FullFile EXCEPT !.open_ok = FALSE],
      [FullFile EXCEPT !.len = 0],
      [FullFile EXCEPT !.len = 1000],
      [FullFile EXCEPT !.len = 2000000, !.chunk = 1500000],
      [FullFile EXCEPT !.chunk = 1000000, !.err_at = 1000000],
      [FullFile EXCEPT !.len = BufSize + 1000, !.chunk = BufSize + 1000] }

InitFill ==
    /\ pc = "done"
    /\ ndebug = FALSE
    /\ ctx_valid = TRUE
    /\ drmfd = 3
    /\ modeset_list \in PreparedLists
    /\ res = NoRes
    /\ i = 0
    /\ root_node = TRUE
    /\ conn = NoConn
    /\ mode_env = NoLookup
    /\ dev = NewDev
    /\ enc_i = 0
    /\ why = "none"
    /\ last = NoLast
    /\ iter = 0
    /\ drawn = <<>>
    /\ passes = 0
    /\ probe_i = 0
    /\ devnodes = <<>>
    /\ open_fds = {[fd |-> 3, node |-> 0]}
    /\ opened = {0}
    /\ \E answer \in BOOLEAN :
          kernel = [PreparedKernel(modeset_list) EXCEPT !.present = {answer}]
    /\ ops = <<>>
    /\ custom_draw = NoCb
    /\ loader_env \in LoaderEnvs
    /\ proc = NoProc
    /\ topology = NoTopology

NextFill == RegisterCb \/ DrawBegin \/ DrawRecord \/ DrawEnd

SpecFill == InitFill /\ [][NextFill]_vars

(***************************************************************************)
(* Claims about the fill, checked under SpecFill.                          *)
(***************************************************************************)

\* the bytes of the mapping of record d in the kernel state kern
MemOf(kern, d) == (CHOOSE m \in kern.maps : m.addr = d.map).mem

\* the loader runs on a stream that ends, without an error, before the buffer
\* is full
ShortStream(d) ==
    /\ custom_draw.cb = 0
    /\ loader_env.asprintf_ok
    /\ loader_env.open_ok
    /\ loader_env.err_at = -1
    /\ loader_env.len < d.size

\* C16: a fill by the loader from a stream of k bytes, k less than the size of
\* the buffer, stores the stream in the first k bytes of the mapping and
\* leaves the bytes behind them as they were; no fill changes the length of a
\* mapping or another record's mapping; the presentation call of the record
\* follows the fill and the pass goes on to the next record.
C16_ShortStreamFillsPrefix ==
    [][ (pc = "draw" /\ iter' = iter + 1) =>
          LET d == modeset_list[iter]
          IN  /\ ShortStream(d) =>
                    /\ MemTake(MemOf(kernel', d), loader_env.len) =
                          MemFill(loader_env.len, "file")
                    /\ MemDrop(MemOf(kernel', d), loader_env.len) =
                          MemDrop(MemOf(kernel, d), loader_env.len)
              /\ MemSize(MemOf(kernel', d)) = d.size
              /\ \A k \in 1..Len(modeset_list) :
                    k # iter => MemOf(kernel', modeset_list[k]) =
                                MemOf(kernel, modeset_list[k])
              /\ Len(drawn') = Len(drawn) + 1
              /\ pc' = "draw"
      ]_vars

\* C16 witness: after a pass filled by a callback and a pass filled by the
\* loader from a file of 1000 bytes, a mapping holds the file in its first
\* 1000 bytes and the callback's bytes behind them.
C16_PrefixOverCallbackBytes ==
    /\ pc = "done"
    /\ passes = 2
    /\ Len(modeset_list) = 2
    /\ loader_env.len = 1000
    /\ \A k \in 1..2 :
          MemOf(kernel, modeset_list[k]) =
              <<[len |-> 1000, val |-> "file"],
                [len |-> BufSize - 1000, val |-> "custom"]>>

\* the calls of the callback in a log, and the calls a loader starts with
CbCalls(os) == SelectSeq(os, LAMBDA o : o.op = "custom_draw_buffer_cb")

LoaderCalls(os) == SelectSeq(os, LAMBDA o : o.op = "asprintf")

\* C18: with a callback registered, the fill of a record is one call of that
\* callback with the record's width, height, stride, size, format, fb id and
\* mapping and the registered priv, and the loader does not run; with none
\* registered the loader runs and no callback is called; when the pass is
\* over every record has had exactly one fill.
C18_CallbackReplacesLoader ==
    [][ /\ (pc = "draw" /\ iter' = iter + 1) =>
              LET d == modeset_list[iter]
                  os == SubSeq(ops', Len(ops) + 1, Len(ops'))
              IN  IF custom_draw.cb # 0
                  THEN /\ CbCalls(os) = <<os[1]>>
                       /\ os[1].cb = custom_draw.cb
                       /\ os[1].priv = custom_draw.priv
                       /\ os[1].buf =
                            [width |-> d.width, height |-> d.height,
                             stride |-> d.stride, size |-> d.size,
                             format |-> platsch_formats[d.format].format,
                             fb_id |-> d.fb_id, fb |-> d.map]
                       /\ LoaderCalls(os) = <<>>
                       /\ \A k \in 1..Len(os) : os[k].op # "read"
                  ELSE /\ CbCalls(os) = <<>>
                       /\ Len(LoaderCalls(os)) = 1
                       /\ os[1].op = "asprintf"
        /\ (pc = "draw" /\ pc' = "done") =>
              /\ Len(CbCalls(ops)) + Len(LoaderCalls(ops)) = Len(modeset_list)
              /\ custom_draw.cb # 0 =>
                    \A k \in 1..Len(modeset_list) :
                        CbCalls(ops)[k].id = modeset_list[k].map
      ]_vars

\* C18 witness: a pass over two records with callback 1 and priv 7
\* registered has ended: two calls of the callback, none of the loader.
C18_TwoCallbackFills ==
    /\ pc = "done"
    /\ passes = 1
    /\ custom_draw = [cb |-> 1, priv |-> 7]
    /\ Len(modeset_list) = 2
    /\ Len(CbCalls(ops)) = 2
    /\ CbCalls(ops)[1].priv = 7
    /\ CbCalls(ops)[1].buf.fb_id = modeset_list[1].fb_id
    /\ CbCalls(ops)[2].buf.fb_id = modeset_list[2].fb_id
    /\ LoaderCalls(ops) = <<>>

\* a record without the flag platsch_draw may clear
Frozen(d) == [d EXCEPT !.setmode = FALSE]

\* a mapping without its bytes
Extent(m) == [addr |-> m.addr, size |-> m.size]

\* C25: no step of platsch_draw adds, removes or reorders records or changes
\* a record's connector, CRTC, timing, width, height, format, stride, size,
\* framebuffer id, handle or mapping address; the dumb buffers, framebuffers
\* and the extents of the mappings stay; what changes is the flag, which is
\* only ever cleared, and the bytes of the record's own mapping.
C25_DrawKeepsRecords ==
    [][ (pc = "draw" \/ pc' = "draw") =>
          /\ Len(modeset_list') = Len(modeset_list)
          /\ \A k \in 1..Len(modeset_list) :
                /\ Frozen(modeset_list'[k]) = Frozen(modeset_list[k])
                /\ modeset_list'[k].setmode => modeset_list[k].setmode
                /\ (k # iter) => modeset_list'[k] = modeset_list[k]
          /\ kernel'.dumbs = kernel.dumbs
          /\ kernel'.fbs = kernel.fbs
          /\ { Extent(m) : m \in kernel'.maps } =
                { Extent(m) : m \in kernel.maps }
          /\ Cardinality(kernel'.maps) = Cardinality(kernel.maps)
      ]_vars

\* C25 witness: a pass over two records is over in which the head's flag was
\* cleared and both mappings got the bytes of the file.
C25_FlagAndBytesChanged ==
    /\ pc = "done"
    /\ passes = 1
    /\ Len(modeset_list) = 2
    /\ modeset_list[1].path = "search"
    /\ ~modeset_list[1].setmode
    /\ drawn[1].call = "drmModeSetCrtc"
    /\ \A k \in 1..2 : MemOf(kernel, modeset_list[k]) =
                          <<[len |-> BufSize, val |-> "file"]>>

\* the presentation calls of a log
PresentCalls(os) ==
    SelectSeq(os, LAMBDA o : o.op \in {"drmModeSetCrtc", "drmModePageFlip"})

\* the calls with which a fill begins
FillCalls(os) ==
    SelectSeq(os, LAMBDA o : o.op \in {"asprintf", "custom_draw_buffer_cb"})

\* C26: the turn of platsch_draw for a record begins with the attempt to fill
\* its buffer and ends with the one presentation call made for it, a mode-set
\* on its CRTC if its flag is set when the turn begins and a page flip if
\* not, whatever the fill and the calls of the turns before gave; when the
\* pass is over there is one fill and one presentation call for each record.
C26_FillThenOnePresentation ==
    [][ /\ (pc = "draw" /\ iter' = iter + 1) =>
              LET d == modeset_list[iter]
                  os == SubSeq(ops', Len(ops) + 1, Len(ops'))
              IN  /\ SubSeq(ops', 1, Len(ops)) = ops
                  /\ Len(os) >= 2
                  /\ FillCalls(os) = <<os[1]>>
                  /\ PresentCalls(os) = <<os[Len(os)]>>
                  /\ os[Len(os)].op = IF d.setmode THEN "drmModeSetCrtc"
                                      ELSE "drmModePageFlip"
                  /\ os[Len(os)].id = d.crtc_id
        /\ (pc = "draw" /\ pc' = "done") =>
              /\ Len(PresentCalls(ops)) = Len(modeset_list)
              /\ Len(FillCalls(ops)) = Len(modeset_list)
              /\ \A k \in 1..Len(modeset_list) :
                    PresentCalls(ops)[k].id = modeset_list[k].crtc_id
      ]_vars

\* C26 witness: the image file cannot be opened and the device refuses every
\* call; the pass over two records has made two fill attempts and two
\* presentation calls all the same.
C26_AllFailedAllTried ==
    /\ pc = "done"
    /\ passes = 1
    /\ Len(modeset_list) = 2
    /\ ~loader_env.open_ok
    /\ kernel.present = {FALSE}
    /\ Len(FillCalls(ops)) = 2
    /\ Len(PresentCalls(ops)) = 2
    /\ \A k \in 1..2 : ~PresentCalls(ops)[k].ok
    /\ Len(drawn) = 2

(***************************************************************************)
(* drmprepare_crtc as a function of the list, the connector and the        *)
(* encoders of the device.  What drmModeGetEncoder gives for each encoder  *)
(* is fixed at the start, and so are the connectors; drmprepare_crtc is    *)
(* applied to one connector after the other and a record that got its CRTC *)
(* is linked, every other step of drmprepare_connector taken to succeed.   *)
(***************************************************************************)

EncIndex(id) == CHOOSE k \in 1..MaxEncoders : EncId(k) = id

\* "iterate all other available encoders", from conn->encoders[k] on
RECURSIVE drmprepare_crtc_search(_, _, _, _, _, _)
drmprepare_crtc_search(list, r, c, d, encs, k) ==
    IF k >= Len(c.encoders)
    THEN [ret |-> ENOENT, dev |-> d, ops |-> <<>>]
    ELSE LET enc == encs[EncIndex(c.encoders[k + 1])]
             o == Op("drmModeGetEncoder", c.encoders[k + 1], 0, enc.ok)
             e == drmprepare_crtc_encoder(list, r, d, enc)
         IN  IF e.done THEN [ret |-> RetOk, dev |-> e.dev, ops |-> <<o>>]
             ELSE LET rest == drmprepare_crtc_search(list, r, c, d, encs, k + 1)
                  IN  [ret |-> rest.ret, dev |-> rest.dev,
                       ops |-> <<o>> \o rest.ops]

\* drmprepare_crtc: the active encoder, then the search
drmprepare_crtc(list, r, c, d, encs, nd) ==
    LET enc == IF c.encoder_id # 0 THEN encs[EncIndex(c.encoder_id)]
               ELSE NoEncoder
        first == IF c.encoder_id # 0
                 THEN <<Op("drmModeGetEncoder", c.encoder_id, 0, enc.ok)>>
                 ELSE <<>>
        a == drmprepare_crtc_active(list, c, d, enc, nd)
        b == drmprepare_crtc_search(list, r, c, a.dev, encs, 0)
    IN  IF a.aborted
        THEN [ret |-> RetOk, aborted |-> TRUE, dev |-> a.dev, why |-> a.why,
              ops |-> first]
        ELSE IF a.done
        THEN [ret |-> RetOk, aborted |-> FALSE, dev |-> a.dev, why |-> a.why,
              ops |-> first]
        ELSE [ret |-> b.ret, aborted |-> FALSE, dev |-> b.dev, why |-> a.why,
              ops |-> first \o b.ops]

\* the k-th connector of the topology as drmModeGetConnector gives it
TopoConn(k) ==
    [ok |-> TRUE, connector_id |-> ConnId(topology.first + k),
     connection |-> DRM_MODE_CONNECTED, modes |-> <<Mode1080>>,
     encoder_id |-> topology.conns[k].encoder_id,
     encoders |-> [e \in 1..topology.conns[k].count_encoders |-> EncId(e)]]

\* drmprepare_crtc for the next connector, and the link or the free
CrtcConnector ==
    /\ pc = "crtc_batch"
    /\ i < Len(topology.conns)
    /\ LET c == TopoConn(i + 1)
           d == [NewDev EXCEPT !.conn_id = c.connector_id]
           r == drmprepare_crtc(modeset_list, res, c, d, topology.encs, ndebug)
       IN  /\ ops' = r.ops
           /\ why' = r.why
           /\ last' = [conn_id |-> c.connector_id,
                       stage |-> IF r.aborted \/ r.ret # RetOk THEN "crtc"
                                 ELSE "done",
                       ret |-> r.ret, why |-> r.why]
           /\ IF r.aborted
              THEN pc' = "aborted" /\ UNCHANGED <<i, modeset_list, root_node>>
              ELSE IF r.ret # RetOk
              THEN i' = i + 1 /\ UNCHANGED <<pc, modeset_list, root_node>>
              ELSE /\ modeset_list' = LinkDev(modeset_list, root_node, r.dev)
                   /\ root_node' = FALSE
                   /\ i' = i + 1
                   /\ UNCHANGED pc
    /\ UNCHANGED <<ndebug, envVars, kernel, res, conn, mode_env, dev, enc_i,
                   drawVars, probeVars>>

\* the last connector is done
CrtcReturn ==
    /\ pc = "crtc_batch"
    /\ i = Len(topology.conns)
    /\ pc' = "done"
    /\ UNCHANGED <<ndebug, envVars, kernelVars, modeset_list, initVars,
                   drawVars, probeVars>>

\* the CRTC indices of a set, lowest first
RECURSIVE SortedSeq(_)
SortedSeq(S) ==
    IF S = {} THEN <<>>
    ELSE LET m == CHOOSE x \in S : \A y \in S : y <= x
         IN  Append(SortedSeq(S \ {m}), m)

\* a list whose records claim the CRTCs with the indices in S: the k-th
\* connector holds the k-th of them, the connector linked last is the head
ClaimedList(S) ==
    [p \in 1..Cardinality(S) |->
        [NewDev EXCEPT !.conn_id = ConnId(Cardinality(S) + 1 - p),
                       !.crtc_id = CrtcId(SortedSeq(S)[Cardinality(S) + 1 - p]),
                       !.path = "reuse"]]

\* what drmModeGetEncoder can give for each encoder: NULL, or an encoder
\* with its mask and, for the encoder a connector is bound to, its CRTC
EncoderTables ==
    { e \in [1..MaxEncoders ->
               { NoEncoder }
               \cup { [ok |-> TRUE, crtc_id |-> c, possible_crtcs |-> m] :
                        c \in {0} \cup { CrtcId(j) : j \in 1..NumCrtcs },
                        m \in Masks }] :
        \A k \in 2..MaxEncoders : e[k].crtc_id = 0 }

\* the same with no encoder bound to a CRTC
SearchTables == { e \in EncoderTables : e[1].crtc_id = 0 }

\* encoders that are all there and bound to no CRTC
UnboundTables == { e \in SearchTables : \A k \in 1..MaxEncoders : e[k].ok }

\* one connector before a list that claims any number of the CRTCs, bound to
\* the first encoder or to none, with all the encoders in its list or with
\* none; or a batch of unbound connectors from the empty list, each with
\* the first encoders of the device
Topologies ==
    { [first |-> f, encs |-> e,
       conns |-> <<[encoder_id |-> EncId(1),
                    count_encoders |-> MaxEncoders]>>] :
        f \in 0..NumCrtcs, e \in EncoderTables }
    \cup { [first |-> f, encs |-> e,
            conns |-> <<[encoder_id |-> 0, count_encoders |-> MaxEncoders]>>] :
        f \in 0..NumCrtcs, e \in SearchTables }
    \cup { [first |-> f, encs |-> [k \in 1..MaxEncoders |-> NoEncoder],
            conns |-> <<[encoder_id |-> 0, count_encoders |-> 0]>>] :
        f \in 0..NumCrtcs }
    \cup { [first |-> 0, encs |-> e, conns |-> cs] :
        e \in UnboundTables,
        cs \in UNION { [1..n -> { [encoder_id |-> 0, count_encoders |-> m] :
                                    m \in 1..MaxEncoders }] :
                       n \in 2..NumConnectors } }

InitCrtc ==
    /\ pc = "crtc_batch"
    /\ topology \in Topologies
    /\ ndebug \in BOOLEAN
    /\ ndebug => ~topology.encs[1].ok
    /\ ctx_valid = TRUE
    /\ drmfd = 3
    /\ \E S \in SUBSET (1..NumCrtcs) :
          /\ Cardinality(S) = topology.first
          /\ modeset_list = ClaimedList(S)
    /\ res = [ok |-> TRUE,
              count_connectors |-> topology.first + Len(topology.conns),
              connectors |-> [k \in 1..(topology.first + Len(topology.conns))
                                |-> ConnId(k)],
              count_crtcs |-> NumCrtcs,
              crtcs |-> [j \in 1..NumCrtcs |-> CrtcId(j)]]
    /\ i = 0
    /\ root_node = (topology.first = 0)
    /\ conn = NoConn
    /\ mode_env = NoLookup
    /\ dev = NewDev
    /\ enc_i = 0
    /\ why = "none"
    /\ last = NoLast
    /\ iter = 0
    /\ drawn = <<>>
    /\ passes = 0
    /\ probe_i = 0
    /\ devnodes = <<>>
    /\ open_fds = {[fd |-> 3, node |-> 0]}
    /\ opened = {0}
    /\ kernel = [NoKernel EXCEPT !.master = TRUE]
    /\ ops = <<>>
    /\ custom_draw = NoCb
    /\ loader_env = FullFile
    /\ proc = NoProc

NextCrtc == CrtcConnector \/ CrtcReturn

SpecCrtc == InitCrtc /\ [][NextCrtc]_vars

(***************************************************************************)
(* Claims about the choice of the CRTC, checked under SpecCrtc.            *)
(***************************************************************************)

\* the CRTCs the in_use loops of drmprepare_crtc find claimed
ClaimedCrtcs == { modeset_list[k].crtc_id : k \in 1..Len(modeset_list) }

\* the connector drmprepare_crtc is applied to next
NextConn == TopoConn(i + 1)

\* the connector is bound to an encoder that is there and whose CRTC no
\* record of the list holds
ActiveFree ==
    /\ NextConn.encoder_id # 0
    /\ topology.encs[EncIndex(NextConn.encoder_id)].ok
    /\ topology.encs[EncIndex(NextConn.encoder_id)].crtc_id # 0
    /\ topology.encs[EncIndex(NextConn.encoder_id)].crtc_id \notin ClaimedCrtcs

\* the pairs of an encoder position in conn->encoders and a CRTC position in
\* res->crtcs that can serve the connector
ViablePairs ==
    { p \in (1..Len(NextConn.encoders)) \X (0..(res.count_crtcs - 1)) :
        /\ topology.encs[EncIndex(NextConn.encoders[p[1]])].ok
        /\ (topology.encs[EncIndex(NextConn.encoders[p[1]])].possible_crtcs
              \div (2 ^ p[2])) % 2 = 1
        /\ res.crtcs[p[2] + 1] \notin ClaimedCrtcs }

LexLeq(p, q) == p[1] < q[1] \/ (p[1] = q[1] /\ p[2] <= q[2])

\* C21: when the search runs, the record gets crtcs[j] of the first pair
\* (i, j), encoder position before CRTC position, whose encoder is there,
\* whose mask has bit j and whose CRTC no record holds; the encoders are
\* fetched in the connector's order up to that pair's; and drmprepare_crtc
\* fails with -ENOENT exactly if there is no such pair.
C21_FirstViablePair ==
    [][ (pc = "crtc_batch" /\ i < Len(topology.conns) /\ i' = i + 1
           /\ ~ActiveFree) =>
          IF ViablePairs = {}
          THEN /\ last'.stage = "crtc"
               /\ last'.ret = ENOENT
               /\ modeset_list' = modeset_list
          ELSE \E p \in ViablePairs :
                 /\ \A q \in ViablePairs : LexLeq(p, q)
                 /\ last'.stage = "done"
                 /\ last'.ret = RetOk
                 /\ Len(modeset_list') = Len(modeset_list) + 1
                 /\ modeset_list'[1].crtc_id = res.crtcs[p[2] + 1]
                 /\ modeset_list'[1].path = "search"
                 /\ LET searched ==
                          IF NextConn.encoder_id = 0 THEN ops' ELSE Tail(ops')
                    IN  /\ Len(searched) = p[1]
                        /\ \A k \in 1..p[1] :
                              searched[k].id = NextConn.encoders[k]
      ]_vars

\* C21 witness: the first encoder of the connector is not there and the
\* first CRTC is held by a record; the second encoder gave the second CRTC.
C21_SecondEncoderSecondCrtc ==
    /\ pc = "crtc_batch"
    /\ i = 1
    /\ topology.first = 1
    /\ ~topology.encs[1].ok
    /\ topology.encs[2].possible_crtcs = 3
    /\ Len(modeset_list) = 2
    /\ modeset_list[2].crtc_id = CrtcId(1)
    /\ modeset_list[1].crtc_id = CrtcId(2)
    /\ modeset_list[1].path = "search"

\* C22: a connector bound to an encoder whose CRTC no record holds gets that
\* CRTC, whatever its place in res->crtcs and whatever the masks, and the
\* one drmModeGetEncoder call for the active encoder is the only one made.
C22_ActiveCrtcTaken ==
    [][ (pc = "crtc_batch" /\ i < Len(topology.conns) /\ ActiveFree) =>
          /\ i' = i + 1
          /\ last'.stage = "done"
          /\ Len(modeset_list') = Len(modeset_list) + 1
          /\ modeset_list'[1].crtc_id =
                topology.encs[EncIndex(NextConn.encoder_id)].crtc_id
          /\ modeset_list'[1].path = "reuse"
          /\ ops' = <<Op("drmModeGetEncoder", NextConn.encoder_id, 0, TRUE)>>
      ]_vars

\* C22 witness: the connector's encoder is bound to the last CRTC while its
\* mask allows none, and the first CRTC is free: the record has the last.
C22_LastCrtcAgainstMask ==
    /\ pc = "crtc_batch"
    /\ i = 1
    /\ topology.first = 0
    /\ topology.conns[1].encoder_id = EncId(1)
    /\ topology.encs[1].crtc_id = CrtcId(NumCrtcs)
    /\ topology.encs[1].possible_crtcs = 0
    /\ Len(modeset_list) = 1
    /\ modeset_list[1].crtc_id = CrtcId(NumCrtcs)
    /\ NumCrtcs > 1

\* the CRTC positions the k-th connector of the topology could be given
PossibleCrtcs(k) ==
    { j \in 1..NumCrtcs :
        \E a \in 1..topology.conns[k].count_encoders :
            /\ topology.encs[a].ok
            /\ (topology.encs[a].possible_crtcs \div (2 ^ (j - 1))) % 2 = 1 }

\* every connector of the topology can have a CRTC of its own within its masks
Feasible ==
    \E f \in [1..Len(topology.conns) -> 1..NumCrtcs] :
        /\ \A k \in 1..Len(topology.conns) : f[k] \in PossibleCrtcs(k)
        /\ \A a, b \in 1..Len(topology.conns) : a # b => f[a] # f[b]

\* C24: giving a connector its CRTC leaves every record already in the list
\* as it is, CRTC included: the allocation never goes back on a choice.
C24_NoBacktracking ==
    [][ (pc = "crtc_batch") =>
          /\ Len(modeset_list') >= Len(modeset_list)
          /\ \A k \in 1..Len(modeset_list) :
                modeset_list'[Len(modeset_list') - Len(modeset_list) + k] =
                    modeset_list[k]
      ]_vars

\* C24 witness: a batch in which every connector could have had a CRTC of
\* its own has ended with a connector refused for want of a CRTC, and a CRTC
\* is left that no record holds.
C24_StarvedThoughFeasible ==
    /\ pc = "done"
    /\ topology.first = 0
    /\ Len(topology.conns) >= 2
    /\ Feasible
    /\ last.stage = "crtc"
    /\ last.ret = ENOENT
    /\ Len(modeset_list) = Len(topology.conns) - 1
    /\ Cardinality(ClaimedCrtcs) < NumCrtcs

(***************************************************************************)
(* platsch_init_ctx called again on a context that holds the records of an *)
(* earlier call: ctx->modeset_list is as that call left it, root_node is   *)
(* the new call's own.                                                     *)
(***************************************************************************)

InitReinit ==
    /\ pc = "idle"
    /\ ndebug \in BOOLEAN
    /\ ctx_valid = TRUE
    /\ drmfd = 3
    /\ modeset_list \in PreparedLists
    /\ res = NoRes
    /\ i = 0
    /\ root_node = TRUE
    /\ conn = NoConn
    /\ mode_env = NoLookup
    /\ dev = NewDev
    /\ enc_i = 0
    /\ why = "none"
    /\ last = NoLast
    /\ iter = 0
    /\ drawn = <<>>
    /\ passes = 0
    /\ probe_i = 0
    /\ devnodes = <<>>
    /\ open_fds = {[fd |-> 3, node |-> 0]}
    /\ opened = {0}
    /\ kernel = PreparedKernel(modeset_list)
    /\ ops = <<>>
    /\ custom_draw = NoCb
    /\ loader_env = FullFile
    /\ proc = NoProc
    /\ topology = NoTopology

SpecReinit == InitReinit /\ [][Next]_vars

\* the CRTCs of the records this call of drmprepare has linked: none until
\* its first link, the whole list from then on
CrtcsOfThisCall == IF root_node THEN {} ELSE ClaimedCrtcs

\* C23: while a connector is being given its CRTC, the CRTCs treated as
\* claimed are those of the records linked earlier in the same call of
\* platsch_init_ctx, also in a call on a context that holds older records.
C23_ClaimedAreOfThisCall ==
    (pc \in {"crtc", "search"}) => ClaimedCrtcs = CrtcsOfThisCall

\* C23, the state that refutes it: in the second call nothing is linked yet,
\* and the first connected connector found its active CRTC claimed by a
\* record of the first call and has gone on to the search.
C23_StaleClaimSendsToSearch ==
    /\ pc = "search"
    /\ root_node
    /\ i = 0
    /\ Len(modeset_list) = 1
    /\ why = "crtc_claimed"
    /\ CrtcsOfThisCall = {}
    /\ ClaimedCrtcs = {CrtcId(1)}

(***************************************************************************)
(* The program platsch: main of platsch.c.  Its drmprepare and the         *)
(* functions under it are, line for line, those of the library with the    *)
(* list and the descriptor as globals, and are taken by the same actions;  *)
(* what is main's own is the probe, the single drawing pass, the drop of   *)
(* mastership and the hand-over to /sbin/init.                             *)
(***************************************************************************)

\* asprintf or open fails in the probe: goto execinit
MainProbeFail(reason) ==
    /\ pc' = "execinit"
    /\ why' = reason

\* one turn of main's loop over the candidates
MainProbe ==
    /\ pc = "main_probe"
    /\ probe_i < NumProbes
    /\ \E asprintf_ok \in BOOLEAN :
        LET node == devnodes[probe_i + 1]
            fd == LowestFreeFd(open_fds)
        IN  CASE ~asprintf_ok ->
                   /\ MainProbeFail("asprintf")
                   /\ UNCHANGED <<drmfd, open_fds, opened, probe_i, kernel>>
              [] asprintf_ok /\ node = "noent" ->
                   /\ MainProbeFail("open")
                   /\ drmfd' = -1
                   /\ UNCHANGED <<open_fds, opened, probe_i, kernel>>
              [] asprintf_ok /\ node = "nores" ->
                   \* the ioctl fails: close(drmfd), continue
                   /\ opened' = opened \cup {probe_i}
                   /\ open_fds' = fd_close(fd_open(open_fds, probe_i), fd)
                   /\ drmfd' = fd
                   /\ probe_i' = probe_i + 1
                   /\ UNCHANGED <<pc, why, kernel>>
              [] asprintf_ok /\ node = "ok" ->
                   \* "Device found": break, then drmprepare(drmfd)
                   /\ opened' = opened \cup {probe_i}
                   /\ open_fds' = fd_open(open_fds, probe_i)
                   /\ drmfd' = fd
                   /\ kernel' = [kernel EXCEPT !.master = TRUE]
                   /\ pc' = "idle"
                   /\ UNCHANGED <<probe_i, why>>
    /\ UNCHANGED <<ndebug, ctx_valid, envVars, ops, modeset_list, res, i,
                   root_node, conn, mode_env, dev, enc_i, last, drawVars,
                   devnodes>>

\* the loop ran out of candidates: drmprepare is called on the descriptor
\* closed last
MainProbeExhausted ==
    /\ pc = "main_probe"
    /\ probe_i = NumProbes
    /\ pc' = "idle"
    /\ UNCHANGED <<ndebug, envVars, kernelVars, modeset_list, initVars,
                   drawVars, probeVars>>

\* assert(!ret) after drmprepare, then the head of the drawing loop
MainAssert ==
    /\ pc \in {"done", "returned"}
    /\ IF pc = "returned" /\ ~ndebug
       THEN pc' = "aborted" /\ UNCHANGED <<iter, ops>>
       ELSE pc' = "main_draw" /\ iter' = 1 /\ ops' = <<>>
    /\ UNCHANGED <<ndebug, envVars, kernel, modeset_list, initVars, drawn,
                   passes, probeVars>>

\* one turn of main's loop over the list: draw_buffer, then drmModeSetCrtc
\* or drmModePageFlip; the record is not changed
MainDrawRecord ==
    /\ pc = "main_draw"
    /\ iter <= Len(modeset_list)
    /\ \E ok \in kernel.present :
          LET d == modeset_list[iter]
              call == IF d.setmode THEN "drmModeSetCrtc" ELSE "drmModePageFlip"
              os == platsch_draw_buffer(loader_env, d)
                    \o <<Op(call, d.crtc_id, 0, ok)>>
          IN  /\ drawn' = Append(drawn, [pass |-> passes, conn_id |-> d.conn_id,
                                         call |-> call, ok |-> ok])
              /\ ops' = ops \o os
              /\ kernel' = ApplyOps(kernel, os)
    /\ iter' = iter + 1
    /\ UNCHANGED <<pc, ndebug, envVars, modeset_list, passes, initVars,
                   probeVars>>

\* the list is done: drmDropMaster, whose failure is only logged
MainDropMaster ==
    /\ pc = "main_draw"
    /\ iter > Len(modeset_list)
    /\ \E ok \in BOOLEAN :
          /\ ok => \E f \in open_fds : f.fd = drmfd
          /\ ops' = Append(ops, Op("drmDropMaster", 0, 0, ok))
          /\ kernel' = ApplyOps(kernel, <<Op("drmDropMaster", 0, 0, ok)>>)
    /\ pc' = "execinit"
    /\ UNCHANGED <<ndebug, envVars, modeset_list, drawVars, initVars,
                   probeVars>>

\* the label execinit: PID 1 forks a child that sleeps with the descriptors
\* it inherited and execs /sbin/init, which closes the O_CLOEXEC descriptor
\* in PID 1; any other process goes to sleep itself
MainExecInit ==
    /\ pc = "execinit"
    /\ IF ~proc.pid1
       THEN /\ pc' = "sleep"
            /\ UNCHANGED <<proc, why, open_fds>>
       ELSE \E fork_ok \in BOOLEAN, calloc_ok \in BOOLEAN, execv_ok \in BOOLEAN :
              /\ proc' = IF fork_ok
                         THEN [proc EXCEPT !.child = "sleep",
                                           !.child_fds = open_fds]
                         ELSE proc
              /\ IF ~calloc_ok
                 THEN pc' = "exit_failure" /\ why' = "calloc"
                      /\ UNCHANGED open_fds
                 ELSE IF ~execv_ok
                 THEN pc' = "exit_failure" /\ why' = "execv"
                      /\ UNCHANGED open_fds
                 ELSE pc' = "exec_init" /\ why' = why /\ open_fds' = {}
    /\ UNCHANGED <<ndebug, ctx_valid, drmfd, custom_draw, loader_env, topology,
                   kernelVars, modeset_list, res, i, root_node, conn, mode_env,
                   dev, enc_i, last, drawVars, probe_i, devnodes, opened>>

\* the device directories: any kind of node at the first two indices, nodes
\* that open and are no KMS device behind them
MainDevNodes ==
    { [k \in 1..NumProbes |->
          IF k = 1 THEN a ELSE IF k = 2 THEN b ELSE "nores"] :
        a \in NodeKinds, b \in NodeKinds }

InitMain ==
    /\ pc = "main_probe"
    /\ ndebug \in BOOLEAN
    /\ ctx_valid = FALSE
    /\ drmfd = 0
    /\ modeset_list = <<>>
    /\ res = NoRes
    /\ i = 0
    /\ root_node = TRUE
    /\ conn = NoConn
    /\ mode_env = NoLookup
    /\ dev = NewDev
    /\ enc_i = 0
    /\ why = "none"
    /\ last = NoLast
    /\ iter = 0
    /\ drawn = <<>>
    /\ passes = 0
    /\ probe_i = 0
    /\ devnodes \in MainDevNodes
    /\ open_fds = {}
    /\ opened = {}
    /\ kernel = NoKernel
    /\ ops = <<>>
    /\ custom_draw = NoCb
    /\ loader_env = FullFile
    /\ \E pid1 \in BOOLEAN : proc = [NoProc EXCEPT !.pid1 = pid1]
    /\ topology = NoTopology

NextMain ==
    \/ MainProbe
    \/ MainProbeExhausted
    \/ InitCtx
    \/ GetConnector
    \/ SelectMode
    \/ PrepareCrtcActive
    \/ PrepareCrtcSearch
    \/ PrepareCrtcFail
    \/ CreateFb
    \/ InitCtxReturn
    \/ MainAssert
    \/ MainDrawRecord
    \/ MainDropMaster
    \/ MainExecInit

SpecMain == InitMain /\ [][NextMain]_vars

(***************************************************************************)
(* The claim about the program, checked under SpecMain.                    *)
(***************************************************************************)

\* C19: as PID 1 the program never comes to a stop short of the exec of
\* /sbin/init on account of the display setup: it does not abort, and it
\* leaves main with a failure only when calloc or execv itself failed; and
\* once it has exec'ed, a child that fork() made sleeps on with the device
\* descriptor PID 1 held at that moment.
C19_Pid1ReachesInit ==
    proc.pid1 =>
        /\ pc # "aborted"
        /\ pc # "sleep"
        /\ (pc = "exit_failure") => why \in {"calloc", "execv"}
        /\ (pc = "exec_init" /\ proc.child = "sleep") =>
              \A f \in proc.child_fds : f.fd = drmfd

\* C19, the state that refutes it: no candidate returned resources, drmprepare
\* ran on the descriptor closed last and failed, and assert(!ret) has ended
\* PID 1 with nothing forked and nothing exec'ed.
C19_Pid1AbortedWithoutDevice ==
    /\ proc.pid1
    /\ ~ndebug
    /\ pc = "aborted"
    /\ probe_i = NumProbes
    /\ open_fds = {}
    /\ last.stage = "resources"
    /\ proc.child = "none"

=============================================================================
